---------------------------- MODULE Spec2Model ----------------------------
(***************************************************************************)
(* A model of the chess engine core of rust-chess-engine: the bitboard     *)
(* primitive, the Board (sparse mailbox mirrored by eight bitboards), the  *)
(* per-piece move generators and their inverse queries, the legality       *)
(* filter, attempt_move / make_move_in_place, game_result and the          *)
(* alpha-beta search.                                                      *)
(*                                                                         *)
(* A Bitboard (u64) is modelled as the set of its set bit indices, a       *)
(* subset of 0..63; a Square is the pair <<rank, file>>; a Vec is a        *)
(* sequence; a function that can panic returns a record with a panic flag. *)
(***************************************************************************)
EXTENDS Integers, Sequences, FiniteSets, TLC

(***************************************************************************)
(* Bounds of the model.                                                    *)
(***************************************************************************)
\* Number of successful moves the caller makes from a constructed board.
MaxMoves == 1
\* Discriminants offered to attempt_move name ranks and files 0..MaxDiscLine.
MaxDiscLine == 0
MaxDepth == 2
MaxPlies == 1
\* Evaluations compared with each other: mate distances 0..MaxMate and scores
\* -MaxScore..MaxScore.
MaxMate == 3
MaxScore == 2
\* Root moves the agent chooses among, and the longest mate among their evaluations.
MaxRootMoves == 3
\* Ranks and files 0..MaxCoord and indices 0..MaxIndex given to the conversions.
MaxCoord == 15
MaxIndex == 127

(***************************************************************************)
(* Program constants.                                                      *)
(***************************************************************************)
\* Width of the two u8 clocks of a Board.
U8Max == 255
\* Draw after this many halfmoves without a pawn move or capture.
FiftyMoveLimit == 50

White == "White"
Black == "Black"
PlayerColor == {White, Black}

\* impl Not for PlayerColor
not_color(color) == IF color = Black THEN White ELSE Black

Pawn == "Pawn"
Knight == "Knight"
Bishop == "Bishop"
Rook == "Rook"
Queen == "Queen"
King == "King"
PIECE_TYPES == <<Pawn, Knight, Bishop, Rook, Queen, King>>
PieceType == {Pawn, Knight, Bishop, Rook, Queen, King}

Piece_new(color, piece_type) == [piece_type |-> piece_type, color |-> color]

Square_new(rank, file) == <<rank, file>>
Squares == (0..7) \X (0..7)

(***************************************************************************)
(* Bitboard                                                                *)
(***************************************************************************)
AllBits == 0..63

check_input_coords(rank, file) ==
    IF rank >= 8 THEN [ok |-> FALSE, max |-> 7, given |-> rank, type_of_index |-> "Rank"]
    ELSE IF file >= 8 THEN [ok |-> FALSE, max |-> 7, given |-> file, type_of_index |-> "File"]
    ELSE [ok |-> TRUE]

check_input_index(index) ==
    IF index >= 64 THEN [ok |-> FALSE, max |-> 63, given |-> index, type_of_index |-> "Index"]
    ELSE [ok |-> TRUE]

coords_to_index(square) ==
    LET chk == check_input_coords(square[1], square[2])
    IN  IF chk.ok THEN [ok |-> TRUE, val |-> 8 * square[1] + square[2]] ELSE chk

\* A variant of index_to_coords that wraps an index of 64 or more onto the board.
index_to_coords_wrapping(index) ==
    [ok |-> TRUE, val |-> Square_new((index % 64) \div 8, index % 8)]

index_to_coords(index) ==
    LET chk == check_input_index(index)
    IN  IF chk.ok THEN [ok |-> TRUE, val |-> Square_new(index \div 8, index % 8)] ELSE chk

\* .expect(..): the callers below only pass squares and indices of the board.
coords_to_index_unchecked(square) == coords_to_index(square).val
index_to_coords_unchecked(index) == index_to_coords(index).val

\* impl From<Square> for Bitboard
Bitboard_from(square) == {coords_to_index_unchecked(square)}

\* Shl / Shr of the u64: bits shifted past either end are lost.
Shl(bb, n) == {i + n : i \in bb} \cap AllBits
Shr(bb, n) == {i - n : i \in bb} \cap AllBits
BitNot(bb) == AllBits \ bb

rank_mask(rank) == {8 * rank + k : k \in 0..7}
file_mask(file) == {file + 8 * k : k \in 0..7}
rank_mask_iter(lo, hi) == UNION {rank_mask(r) : r \in lo..(hi - 1)}
file_mask_iter(lo, hi) == UNION {file_mask(f) : f \in lo..(hi - 1)}

is_bit_set(bb, index) == index \in bb

\* A variant of the iterator that scans from bit 63 down to bit 0.
squares_from_msb(bb) ==
    LET idx == SelectSeq([i \in 1..64 |-> 64 - i], LAMBDA i : is_bit_set(bb, i))
    IN  [k \in 1..Len(idx) |-> index_to_coords_unchecked(idx[k])]

\* BitboardSquareIterator: scans cur_index from 0 to 63 and yields the square of
\* every set bit, so squares come in ascending index order.
squares(bb) ==
    LET idx == SelectSeq([i \in 1..64 |-> i - 1], LAMBDA i : is_bit_set(bb, i))
    IN  [k \in 1..Len(idx) |-> index_to_coords_unchecked(idx[k])]

(***************************************************************************)
(* Board: state, constructors, add_piece / remove_piece                    *)
(***************************************************************************)
CastlingAvailability_new(wk, wq, bk, bq) ==
    [white_castle_kingside |-> wk, white_castle_queenside |-> wq,
     black_castle_kingside |-> bk, black_castle_queenside |-> bq]

NoSquare == <<>>
EmptyMailbox == [s \in {} |-> Piece_new(White, Pawn)]

pieces_of_color(b, color) == IF color = White THEN b.white_pieces ELSE b.black_pieces

pieces_of_type(b, piece_type) ==
    CASE piece_type = Pawn -> b.pawn_pieces
      [] piece_type = Rook -> b.rook_pieces
      [] piece_type = King -> b.king_pieces
      [] piece_type = Queen -> b.queen_pieces
      [] piece_type = Knight -> b.knight_pieces
      [] piece_type = Bishop -> b.bishop_pieces

\* *self.pieces_of_color_as_mut(color) |= mask
or_pieces_of_color(b, color, mask) ==
    IF color = White THEN [b EXCEPT !.white_pieces = @ \cup mask]
    ELSE [b EXCEPT !.black_pieces = @ \cup mask]

\* *self.pieces_of_type_as_mut(piece_type) |= mask
or_pieces_of_type(b, piece_type, mask) ==
    CASE piece_type = Pawn -> [b EXCEPT !.pawn_pieces = @ \cup mask]
      [] piece_type = Rook -> [b EXCEPT !.rook_pieces = @ \cup mask]
      [] piece_type = King -> [b EXCEPT !.king_pieces = @ \cup mask]
      [] piece_type = Queen -> [b EXCEPT !.queen_pieces = @ \cup mask]
      [] piece_type = Knight -> [b EXCEPT !.knight_pieces = @ \cup mask]
      [] piece_type = Bishop -> [b EXCEPT !.bishop_pieces = @ \cup mask]

piece_at(b, square) == square \in DOMAIN b.piece_mailbox

add_piece(b, piece, position) ==
    LET inserted == [b EXCEPT !.piece_mailbox = (position :> piece) @@ @]
        add_bitmask == Bitboard_from(position)
    IN  or_pieces_of_type(or_pieces_of_color(inserted, piece.color, add_bitmask),
                          piece.piece_type, add_bitmask)

\* A variant of remove_piece whose mask is the square itself, not its complement.
remove_piece_with_plain_mask(b, position) ==
    LET remove_bitmask == Bitboard_from(position)
    IN  [some  |-> position \in DOMAIN b.piece_mailbox,
         piece |-> IF position \in DOMAIN b.piece_mailbox
                   THEN b.piece_mailbox[position] ELSE Piece_new(White, Pawn),
         board |-> [b EXCEPT
                      !.piece_mailbox = [s \in (DOMAIN @) \ {position} |-> @[s]],
                      !.white_pieces = @ \cap remove_bitmask,
                      !.black_pieces = @ \cap remove_bitmask,
                      !.pawn_pieces = @ \cap remove_bitmask,
                      !.knight_pieces = @ \cap remove_bitmask,
                      !.bishop_pieces = @ \cap remove_bitmask,
                      !.rook_pieces = @ \cap remove_bitmask,
                      !.queen_pieces = @ \cap remove_bitmask,
                      !.king_pieces = @ \cap remove_bitmask]]

\* Returns the board left behind and the Option<Piece> taken from the mailbox.
remove_piece(b, position) ==
    LET remove_bitmask == BitNot(Bitboard_from(position))
    IN  [some  |-> position \in DOMAIN b.piece_mailbox,
         piece |-> IF position \in DOMAIN b.piece_mailbox
                   THEN b.piece_mailbox[position] ELSE Piece_new(White, Pawn),
         board |-> [b EXCEPT
                      !.piece_mailbox = [s \in (DOMAIN @) \ {position} |-> @[s]],
                      !.white_pieces = @ \cap remove_bitmask,
                      !.black_pieces = @ \cap remove_bitmask,
                      !.pawn_pieces = @ \cap remove_bitmask,
                      !.knight_pieces = @ \cap remove_bitmask,
                      !.bishop_pieces = @ \cap remove_bitmask,
                      !.rook_pieces = @ \cap remove_bitmask,
                      !.queen_pieces = @ \cap remove_bitmask,
                      !.king_pieces = @ \cap remove_bitmask]]

\* A BoardConfiguration: a piece map plus the five FEN fields.
BoardConfiguration_new(pieces, active_color, castling, en_passant, halfmove, fullmove) ==
    [pieces |-> pieces, active_color |-> active_color,
     castling_availability |-> castling, en_passant_target_square |-> en_passant,
     halfmove_clock |-> halfmove, fullmove_number |-> fullmove]

\* for (square, piece) in config.pieces() { new_board.add_piece(piece, square) }:
\* the loop goes on while a square of the configuration is not on the board yet.
RECURSIVE add_all_pieces(_, _)
add_all_pieces(b, pieces) ==
    IF DOMAIN b.piece_mailbox = DOMAIN pieces THEN b
    ELSE LET square == CHOOSE s \in DOMAIN pieces : s \notin DOMAIN b.piece_mailbox
         IN  add_all_pieces(add_piece(b, pieces[square], square), pieces)

new_board_with_configuration(config) ==
    LET new_board ==
            [active_color |-> config.active_color,
             castling_availability |-> config.castling_availability,
             en_passant_target_square |-> config.en_passant_target_square,
             halfmove_clock |-> config.halfmove_clock,
             fullmove_number |-> config.fullmove_number,
             piece_mailbox |-> EmptyMailbox,
             white_pieces |-> {}, black_pieces |-> {},
             king_pieces |-> {}, queen_pieces |-> {}, rook_pieces |-> {},
             knight_pieces |-> {}, bishop_pieces |-> {}, pawn_pieces |-> {}]
    IN  add_all_pieces(new_board, config.pieces)

\* BoardQuery: query() starts from the mask of all pieces.
query(b) == b.white_pieces \cup b.black_pieces
query_color(b, color) == query(b) \cap pieces_of_color(b, color)
query_color_piece_type(b, color, piece_type) ==
    (query(b) \cap pieces_of_color(b, color)) \cap pieces_of_type(b, piece_type)

(***************************************************************************)
(* Move generators (per piece type, against the current occupancy)         *)
(***************************************************************************)
knight_moves(b, active_color, from) ==
    LET src == Bitboard_from(from)
        knight_on_rank_1_or_higher == src \cap rank_mask_iter(1, 8)
        knight_on_rank_2_or_higher == src \cap rank_mask_iter(2, 8)
        knight_on_rank_6_or_lower == src \cap rank_mask_iter(0, 7)
        knight_on_rank_5_or_lower == src \cap rank_mask_iter(0, 6)
        knight_on_file_b_to_h == src \cap file_mask_iter(1, 8)
        knight_on_file_c_to_h == src \cap file_mask_iter(2, 8)
        knight_on_file_a_to_g == src \cap file_mask_iter(0, 7)
        knight_on_file_a_to_f == src \cap file_mask_iter(0, 6)
        north_north_east == Shl(knight_on_rank_5_or_lower \cap knight_on_file_a_to_g, 17)
        north_east_east == Shl(knight_on_rank_6_or_lower \cap knight_on_file_a_to_f, 10)
        south_east_east == Shr(knight_on_rank_1_or_higher \cap knight_on_file_a_to_f, 6)
        south_south_east == Shr(knight_on_rank_2_or_higher \cap knight_on_file_a_to_g, 15)
        south_south_west == Shr(knight_on_rank_2_or_higher \cap knight_on_file_b_to_h, 17)
        south_west_west == Shr(knight_on_rank_1_or_higher \cap knight_on_file_c_to_h, 10)
        north_west_west == Shl(knight_on_rank_6_or_lower \cap knight_on_file_c_to_h, 6)
        north_north_west == Shl(knight_on_rank_5_or_lower \cap knight_on_file_b_to_h, 15)
    IN  (north_north_east \cup north_east_east \cup south_east_east \cup south_south_east
         \cup south_south_west \cup south_west_west \cup north_west_west
         \cup north_north_west)
        \cap BitNot(query_color(b, active_color))

\* A variant of king_moves that shifts the king's bit without the rank and file masks.
king_moves_without_edge_masks(b, active_color, from) ==
    LET src == Bitboard_from(from)
    IN  (Shl(src, 9) \cup Shl(src, 8) \cup Shl(src, 7) \cup Shl(src, 1)
         \cup Shr(src, 1) \cup Shr(src, 7) \cup Shr(src, 8) \cup Shr(src, 9))
        \cap BitNot(query_color(b, active_color))

king_moves(b, active_color, from) ==
    LET src == Bitboard_from(from)
        king_on_rank_1_or_higher == src \cap rank_mask_iter(1, 8)
        king_on_rank_6_or_lower == src \cap rank_mask_iter(0, 7)
        king_on_file_b_to_h == src \cap file_mask_iter(1, 8)
        king_on_file_a_to_g == src \cap file_mask_iter(0, 7)
        north_east == Shl(king_on_rank_6_or_lower \cap king_on_file_a_to_g, 9)
        north == Shl(king_on_rank_6_or_lower, 8)
        north_west == Shl(king_on_rank_6_or_lower \cap king_on_file_b_to_h, 7)
        east == Shl(king_on_file_a_to_g, 1)
        west == Shr(king_on_file_b_to_h, 1)
        south_east == Shr(king_on_rank_1_or_higher \cap king_on_file_a_to_g, 7)
        south == Shr(king_on_rank_1_or_higher, 8)
        south_west == Shr(king_on_rank_1_or_higher \cap king_on_file_b_to_h, 9)
    IN  (north_east \cup north \cup north_west \cup east \cup west
         \cup south_east \cup south \cup south_west)
        \cap BitNot(query_color(b, active_color))

\* Direction(u8): the eight directions, named as the source names them.
DIRECTION_UP == 4
DIRECTION_UP_RIGHT == 7
DIRECTION_RIGHT == 6
DIRECTION_DOWN_RIGHT == 2
DIRECTION_DOWN == 1
DIRECTION_DOWN_LEFT == 0
DIRECTION_LEFT == 3
DIRECTION_UP_LEFT == 5

vertical_component(direction) ==
    IF direction \in {0, 1, 2} THEN -1 ELSE IF direction \in {3, 4} THEN 0 ELSE 1

horizontal_component(direction) ==
    IF direction \in {0, 3, 5} THEN -1 ELSE IF direction \in {1, 6} THEN 0 ELSE 1

\* Option<Square>: NoSquare when the step leaves the board.
increment_square_in_direction(square, direction) ==
    LET new_rank == square[1] + vertical_component(direction)
        new_file == square[2] + horizontal_component(direction)
    IN  IF new_rank < 0 \/ new_rank >= 8 THEN NoSquare
        ELSE IF new_file < 0 \/ new_file >= 8 THEN NoSquare
        ELSE Square_new(new_rank, new_file)

\* The loop of moves_in_direction, from the square being checked.
RECURSIVE moves_in_direction_loop(_, _, _, _, _)
moves_in_direction_loop(b, active_color, checked_square, direction, bitboard) ==
    IF checked_square = NoSquare THEN bitboard
    ELSE IF is_bit_set(query_color(b, active_color), coords_to_index_unchecked(checked_square))
         THEN bitboard
    ELSE IF is_bit_set(query_color(b, not_color(active_color)),
                       coords_to_index_unchecked(checked_square))
         THEN bitboard \cup Bitboard_from(checked_square)
    ELSE moves_in_direction_loop(b, active_color,
             increment_square_in_direction(checked_square, direction), direction,
             bitboard \cup Bitboard_from(checked_square))

moves_in_direction(b, active_color, from, direction) ==
    moves_in_direction_loop(b, active_color,
        increment_square_in_direction(from, direction), direction, {})

bishop_moves(b, active_color, from) ==
    moves_in_direction(b, active_color, from, DIRECTION_UP_LEFT) \cup
    moves_in_direction(b, active_color, from, DIRECTION_UP_RIGHT) \cup
    moves_in_direction(b, active_color, from, DIRECTION_DOWN_RIGHT) \cup
    moves_in_direction(b, active_color, from, DIRECTION_DOWN_LEFT)

rook_moves(b, active_color, from) ==
    moves_in_direction(b, active_color, from, DIRECTION_UP) \cup
    moves_in_direction(b, active_color, from, DIRECTION_RIGHT) \cup
    moves_in_direction(b, active_color, from, DIRECTION_DOWN) \cup
    moves_in_direction(b, active_color, from, DIRECTION_LEFT)

queen_moves(b, active_color, from) ==
    bishop_moves(b, active_color, from) \cup rook_moves(b, active_color, from)

\* Forward pushes of a pawn: one square onto an empty square, two from the pawn's
\* home rank when both squares are empty. Never a capture.
pawn_moves(b, active_color, from) ==
    LET src == Bitboard_from(from)
        empty == BitNot(query(b))
    IN  IF active_color = White
        THEN LET one == Shl(src, 8) \cap empty
                 two == Shl(one \cap rank_mask(2), 8) \cap empty
             IN  one \cup two
        ELSE LET one == Shr(src, 8) \cap empty
                 two == Shr(one \cap rank_mask(5), 8) \cap empty
             IN  one \cup two

\* Diagonal captures of a pawn: the forward diagonal squares that hold a piece of
\* the other color. Disjoint from pawn_moves.
pawn_attacks(b, active_color, from) ==
    LET src == Bitboard_from(from)
        pawn_on_file_b_to_h == src \cap file_mask_iter(1, 8)
        pawn_on_file_a_to_g == src \cap file_mask_iter(0, 7)
        diagonals == IF active_color = White
                     THEN Shl(pawn_on_file_b_to_h, 7) \cup Shl(pawn_on_file_a_to_g, 9)
                     ELSE Shr(pawn_on_file_b_to_h, 9) \cup Shr(pawn_on_file_a_to_g, 7)
    IN  diagonals \cap query_color(b, not_color(active_color))

Moves_of_type(b, piece_type, color, square) ==
    CASE piece_type = Pawn -> pawn_moves(b, color, square)
      [] piece_type = Knight -> knight_moves(b, color, square)
      [] piece_type = Bishop -> bishop_moves(b, color, square)
      [] piece_type = Rook -> rook_moves(b, color, square)
      [] piece_type = Queen -> queen_moves(b, color, square)
      [] piece_type = King -> king_moves(b, color, square)

Attacks_of_type(b, piece_type, color, square) ==
    CASE piece_type = Pawn -> pawn_attacks(b, color, square)
      [] piece_type = Knight -> knight_moves(b, color, square)
      [] piece_type = Bishop -> bishop_moves(b, color, square)
      [] piece_type = Rook -> rook_moves(b, color, square)
      [] piece_type = Queen -> queen_moves(b, color, square)
      [] piece_type = King -> king_moves(b, color, square)

(***************************************************************************)
(* Inverse queries                                                         *)
(***************************************************************************)
\* The move bitmask is computed for self.active_color, as the source does.
squares_of_type_that_can_move_to_square(b, piece_color, piece_type, square) ==
    LET piece_map == pieces_of_type(b, piece_type) \cap pieces_of_color(b, piece_color)
        target_square_bitboard == Bitboard_from(square)
    IN  SelectSeq(squares(piece_map),
            LAMBDA starting_square :
                (Moves_of_type(b, piece_type, b.active_color, starting_square)
                    \cap target_square_bitboard) /= {})

squares_of_type_that_can_capture_square(b, piece_color, piece_type, target_square) ==
    LET piece_map == pieces_of_type(b, piece_type) \cap pieces_of_color(b, piece_color)
        target_square_bitboard == Bitboard_from(target_square)
    IN  SelectSeq(squares(piece_map),
            LAMBDA start_square :
                (Attacks_of_type(b, piece_type, piece_color, start_square)
                    \cap target_square_bitboard) /= {})

RECURSIVE concat_captures(_, _, _, _)
concat_captures(b, attacking_color, target_square, k) ==
    IF k > Len(PIECE_TYPES) THEN <<>>
    ELSE squares_of_type_that_can_capture_square(b, attacking_color, PIECE_TYPES[k],
             target_square)
         \o concat_captures(b, attacking_color, target_square, k + 1)

all_squares_that_can_capture_square(b, attacking_color, target_square) ==
    concat_captures(b, attacking_color, target_square, 1)

(***************************************************************************)
(* Moves and move commands                                                 *)
(***************************************************************************)
Kingside == "Kingside"
Queenside == "Queenside"

Move_NormalMove(starting_square, target_square, capture) ==
    [kind |-> "NormalMove", starting_square |-> starting_square,
     capture |-> capture, target_square |-> target_square]
Move_Castle(direction) == [kind |-> "Castle", direction |-> direction]

\* Option<Line>
NoLine == [line |-> "None"]
Line_Rank(rank) == [line |-> "Rank", rank |-> rank]
Line_File(file) == [line |-> "File", file |-> file]
Line_RankAndFile(rank, file) == [line |-> "RankAndFile", rank |-> rank, file |-> file]

has_square(line, square) ==
    CASE line.line = "Rank" -> square[1] = line.rank
      [] line.line = "File" -> square[2] = line.file
      [] line.line = "RankAndFile" -> square[1] = line.rank /\ square[2] = line.file

MoveCommand_NormalMove(piece_type, discriminant, capture, target_square) ==
    [kind |-> "NormalMove", piece_type |-> piece_type, discriminant |-> discriminant,
     capture |-> capture, target_square |-> target_square]
KingsideCastle == [kind |-> "KingsideCastle"]
QueensideCastle == [kind |-> "QueensideCastle"]

\* MoveData::from_move_command_data
from_move_command_data(move_command_data, starting_square) ==
    Move_NormalMove(starting_square, move_command_data.target_square,
                    move_command_data.capture)

\* MoveError
NoPossibleMove == "NoPossibleMove"
TooManMoves == "TooManMoves"
IllegalMove == "IllegalMove"

(***************************************************************************)
(* make_move_in_place, make_move                                           *)
(***************************************************************************)
\* x += 1 on a u8. At 255 a build with overflow checks panics and a build without
\* them wraps to 0; wrap tells which build runs.
add_one_u8(x, wrap) ==
    IF x + 1 > U8Max
    THEN IF wrap THEN [panic |-> FALSE, val |-> (x + 1) % (U8Max + 1)]
         ELSE [panic |-> TRUE, val |-> x]
    ELSE [panic |-> FALSE, val |-> x + 1]

home_rank(color) == IF color = White THEN 0 ELSE 7

\* A variant of update_with_move that only looks at the mover's own king and rooks.
update_with_move_of_mover_only(ca, color, move) ==
    LET rank == home_rank(color)
        king_moved == \/ move.kind = "Castle"
                      \/ move.kind = "NormalMove" /\ move.starting_square = Square_new(rank, 4)
        from(file) == move.kind = "NormalMove" /\ move.starting_square = Square_new(rank, file)
        lost_kingside(c) == c = color /\ (king_moved \/ from(7))
        lost_queenside(c) == c = color /\ (king_moved \/ from(0))
    IN  [white_castle_kingside |-> ca.white_castle_kingside /\ ~lost_kingside(White),
         white_castle_queenside |-> ca.white_castle_queenside /\ ~lost_queenside(White),
         black_castle_kingside |-> ca.black_castle_kingside /\ ~lost_kingside(Black),
         black_castle_queenside |-> ca.black_castle_queenside /\ ~lost_queenside(Black)]

\* CastlingAvailability::update_with_move(color, move): revokes the rights that the
\* move of color ends. It is given the color and the move only, so a king or rook
\* move is known by its starting square and a rook capture by its target square.
update_with_move(ca, color, move) ==
    LET rank == home_rank(color)
        other_rank == home_rank(not_color(color))
        king_moved == \/ move.kind = "Castle"
                      \/ move.kind = "NormalMove" /\ move.starting_square = Square_new(rank, 4)
        from(file) == move.kind = "NormalMove" /\ move.starting_square = Square_new(rank, file)
        takes(file) == /\ move.kind = "NormalMove" /\ move.capture
                       /\ move.target_square = Square_new(other_rank, file)
        lost_kingside(c) == IF c = color THEN king_moved \/ from(7) ELSE takes(7)
        lost_queenside(c) == IF c = color THEN king_moved \/ from(0) ELSE takes(0)
    IN  [white_castle_kingside |-> ca.white_castle_kingside /\ ~lost_kingside(White),
         white_castle_queenside |-> ca.white_castle_queenside /\ ~lost_queenside(White),
         black_castle_kingside |-> ca.black_castle_kingside /\ ~lost_kingside(Black),
         black_castle_queenside |-> ca.black_castle_queenside /\ ~lost_queenside(Black)]

\* The tail of make_move_in_place: fullmove number, castling rights, next player.
finish_move(b, move, wrap) ==
    LET fullmove == IF b.active_color = Black THEN add_one_u8(b.fullmove_number, wrap)
                    ELSE [panic |-> FALSE, val |-> b.fullmove_number]
    IN  [panic |-> fullmove.panic,
         board |-> [b EXCEPT
                      !.fullmove_number = fullmove.val,
                      !.castling_availability = update_with_move(@, b.active_color, move),
                      !.active_color = not_color(@)]]

\* Returns the board after the move, or panic when an expect() or an overflow check
\* fails on the way.
make_move_in_place(b, move, wrap) ==
    LET rank == IF b.active_color = White THEN 0 ELSE 7
        king_to_file == IF move.direction = Kingside THEN 6 ELSE 2
        rook_from_file == IF move.direction = Kingside THEN 7 ELSE 0
        rook_to_file == IF move.direction = Kingside THEN 5 ELSE 3
        castle(king, rook, clock) ==
            IF ~king.some \/ ~rook.some \/ clock.panic
            THEN [panic |-> TRUE, board |-> b]
            ELSE finish_move(
                     [add_piece(add_piece(rook.board, king.piece,
                                          Square_new(rank, king_to_file)),
                                rook.piece, Square_new(rank, rook_to_file))
                        EXCEPT !.halfmove_clock = clock.val],
                     move, wrap)
        take_rook(king) ==
            castle(king, remove_piece(king.board, Square_new(rank, rook_from_file)),
                   add_one_u8(b.halfmove_clock, wrap))
        normal(removed, clock) ==
            IF ~removed.some \/ clock.panic
            THEN [panic |-> TRUE, board |-> b]
            ELSE finish_move(
                     [add_piece(IF move.capture
                                THEN remove_piece(removed.board, move.target_square).board
                                ELSE removed.board,
                                removed.piece, move.target_square)
                        EXCEPT !.halfmove_clock = clock.val],
                     move, wrap)
        take_piece(removed) ==
            normal(removed,
                   IF removed.piece.piece_type = Pawn THEN [panic |-> FALSE, val |-> 0]
                   ELSE IF move.capture THEN [panic |-> FALSE, val |-> 0]
                   ELSE add_one_u8(b.halfmove_clock, wrap))
    IN  IF move.kind = "Castle"
        THEN take_rook(remove_piece(b, Square_new(rank, 4)))
        ELSE take_piece(remove_piece(b, move.starting_square))

\* A variant of make_move that works on the receiver itself instead of on a clone.
make_move_on_receiver(b, move, wrap) ==
    LET result(made) == [self |-> made.board, panic |-> made.panic, board |-> made.board]
    IN  result(make_move_in_place(b, move, wrap))

\* make_move: clone, then make_move_in_place on the clone. self is the receiver as
\* the call leaves it.
make_move(b, move, wrap) ==
    LET result(made) == [self |-> b, panic |-> made.panic, board |-> made.board]
    IN  result(make_move_in_place(b, move, wrap))

(***************************************************************************)
(* Check and legality                                                      *)
(***************************************************************************)
RECURSIVE any_type_attacks(_, _, _, _)
any_type_attacks(b, attacking_color, square, order) ==
    IF order = <<>> THEN FALSE
    ELSE IF Len(squares_of_type_that_can_capture_square(b, attacking_color,
                    Head(order), square)) > 0
         THEN TRUE
         ELSE any_type_attacks(b, attacking_color, square, Tail(order))

\* The assert on the number of king squares panics unless it is exactly one.
is_king_in_check(b, king_color) ==
    LET king == query_color_piece_type(b, king_color, King)
        king_square == squares(king)
    IN  IF Len(king_square) /= 1 THEN [panic |-> TRUE, val |-> FALSE]
        ELSE [panic |-> FALSE,
              val |-> any_type_attacks(b, not_color(king_color), king_square[1],
                          <<Pawn, Knight, Bishop, Rook, Queen, King>>)]

move_leaves_king_in_check(b, move, wrap) ==
    LET result(theoretical_next_board, check) ==
            IF theoretical_next_board.panic
            THEN [self |-> theoretical_next_board.self, panic |-> TRUE, val |-> FALSE]
            ELSE [self |-> theoretical_next_board.self, panic |-> check.panic,
                  val |-> check.val]
        checked(theoretical_next_board) ==
            result(theoretical_next_board,
                   is_king_in_check(theoretical_next_board.board, b.active_color))
    IN  checked(make_move(b, move, wrap))

RECURSIVE check_squares_for_attack(_, _)
check_squares_for_attack(b, check_squares) ==
    IF check_squares = <<>> THEN FALSE
    ELSE IF all_squares_that_can_capture_square(b, not_color(b.active_color),
                Head(check_squares)) /= <<>>
         THEN TRUE
         ELSE check_squares_for_attack(b, Tail(check_squares))

kingside_castle_moves_through_check(b, moving_color) ==
    LET rank == IF moving_color = White THEN 0 ELSE 7
    IN  check_squares_for_attack(b,
            <<Square_new(rank, 4), Square_new(rank, 5), Square_new(rank, 6)>>)

queenside_castle_moves_through_check(b, moving_color) ==
    LET rank == IF moving_color = White THEN 0 ELSE 7
    IN  check_squares_for_attack(b,
            <<Square_new(rank, 4), Square_new(rank, 3), Square_new(rank, 2)>>)

\* Never called by get_move, check_move or attempt_move.
has_castled_already(b, color, check_direction) ==
    CASE color = White /\ check_direction = Kingside ->
             b.castling_availability.white_castle_kingside
      [] color = White /\ check_direction = Queenside ->
             b.castling_availability.white_castle_queenside
      [] color = Black /\ check_direction = Kingside ->
             b.castling_availability.black_castle_kingside
      [] color = Black /\ check_direction = Queenside ->
             b.castling_availability.black_castle_queenside

\* A variant of check_move without its first test.
check_move_without_king_test(b, attempted_move, wrap) ==
    [self |-> b, panic |-> FALSE,
     val |-> IF attempted_move.kind = "Castle"
             THEN IF attempted_move.direction = Kingside
                  THEN ~kingside_castle_moves_through_check(b, b.active_color)
                  ELSE ~queenside_castle_moves_through_check(b, b.active_color)
             ELSE TRUE]

check_move(b, attempted_move, wrap) ==
    LET result(leaves) ==
            IF leaves.panic THEN [self |-> leaves.self, panic |-> TRUE, val |-> FALSE]
            ELSE IF leaves.val THEN [self |-> leaves.self, panic |-> FALSE, val |-> FALSE]
            ELSE IF attempted_move.kind = "Castle" /\ attempted_move.direction = Kingside
                    /\ kingside_castle_moves_through_check(leaves.self,
                           leaves.self.active_color)
                 THEN [self |-> leaves.self, panic |-> FALSE, val |-> FALSE]
            ELSE IF attempted_move.kind = "Castle" /\ attempted_move.direction = Queenside
                    /\ queenside_castle_moves_through_check(leaves.self,
                           leaves.self.active_color)
                 THEN [self |-> leaves.self, panic |-> FALSE, val |-> FALSE]
            ELSE [self |-> leaves.self, panic |-> FALSE, val |-> TRUE]
    IN  result(move_leaves_king_in_check(b, attempted_move, wrap))

(***************************************************************************)
(* Resolving a command, attempt_move                                       *)
(***************************************************************************)
\* A variant of parse_normal_move that takes the first of several candidates.
parse_normal_move_first_candidate(b, move_data) ==
    LET resolve(starting_squares) ==
            IF Len(starting_squares) = 0 THEN [ok |-> FALSE, error |-> NoPossibleMove]
            ELSE [ok |-> TRUE,
                  move |-> from_move_command_data(move_data, starting_squares[1])]
    IN  resolve(IF move_data.capture
                THEN squares_of_type_that_can_capture_square(b, b.active_color,
                         move_data.piece_type, move_data.target_square)
                ELSE squares_of_type_that_can_move_to_square(b, b.active_color,
                         move_data.piece_type, move_data.target_square))

parse_normal_move(b, move_data) ==
    LET discriminant == move_data.discriminant
        one_of(filtered) ==
            IF Len(filtered) = 0 THEN [ok |-> FALSE, error |-> NoPossibleMove]
            ELSE IF Len(filtered) = 1
                 THEN [ok |-> TRUE,
                       move |-> from_move_command_data(move_data, filtered[1])]
            ELSE [ok |-> FALSE, error |-> TooManMoves]
        resolve(starting_squares) ==
            IF Len(starting_squares) = 0 THEN [ok |-> FALSE, error |-> NoPossibleMove]
            ELSE IF Len(starting_squares) = 1
                 THEN [ok |-> TRUE,
                       move |-> from_move_command_data(move_data, starting_squares[1])]
            ELSE IF discriminant /= NoLine
                 THEN one_of(SelectSeq(starting_squares,
                                 LAMBDA square : has_square(discriminant, square)))
            ELSE [ok |-> FALSE, error |-> TooManMoves]
    IN  resolve(IF move_data.capture
                THEN squares_of_type_that_can_capture_square(b, b.active_color,
                         move_data.piece_type, move_data.target_square)
                ELSE squares_of_type_that_can_move_to_square(b, b.active_color,
                         move_data.piece_type, move_data.target_square))

get_move(b, move_command) ==
    CASE move_command.kind = "KingsideCastle" -> [ok |-> TRUE, move |-> Move_Castle(Kingside)]
      [] move_command.kind = "QueensideCastle" -> [ok |-> TRUE, move |-> Move_Castle(Queenside)]
      [] move_command.kind = "NormalMove" -> parse_normal_move(b, move_command)

\* Result<Board, MoveError>, or a panic; self is the receiver as the call leaves it.
attempt_move(b, attempted_move, wrap) ==
    LET made_move(made) ==
            IF made.panic THEN [self |-> made.self, kind |-> "Panic"]
            ELSE [self |-> made.self, kind |-> "Ok", board |-> made.board]
        checked_move(move, checked) ==
            IF checked.panic THEN [self |-> checked.self, kind |-> "Panic"]
            ELSE IF ~checked.val
                 THEN [self |-> checked.self, kind |-> "Err", error |-> IllegalMove]
            ELSE made_move(make_move(checked.self, move.move, wrap))
        got_move(move) ==
            IF ~move.ok THEN [self |-> b, kind |-> "Err", error |-> move.error]
            ELSE checked_move(move, check_move(b, move.move, wrap))
    IN  got_move(get_move(b, attempted_move))

(***************************************************************************)
(* Move generation, game_result                                            *)
(***************************************************************************)
\* Option<Bitboard>: none when the mailbox has no piece on the square.
generate_possible_moves_for_piece(b, player_color, square) ==
    IF ~piece_at(b, square) THEN [some |-> FALSE, val |-> {}]
    ELSE [some |-> TRUE,
          val |-> IF b.piece_mailbox[square].piece_type = Pawn
                  THEN pawn_moves(b, player_color, square)
                       \cup pawn_attacks(b, player_color, square)
                  ELSE Moves_of_type(b, b.piece_mailbox[square].piece_type,
                                     player_color, square)]

\* filter(|m| self.check_move(m)) over a Vec of moves; a panic of check_move ends it.
RECURSIVE filter_check_move(_, _, _)
filter_check_move(b, moves, wrap) ==
    LET keep(checked, rest) ==
            IF checked.panic \/ rest.panic THEN [panic |-> TRUE, val |-> <<>>]
            ELSE [panic |-> FALSE,
                  val |-> IF checked.val THEN <<Head(moves)>> \o rest.val ELSE rest.val]
    IN  IF moves = <<>> THEN [panic |-> FALSE, val |-> <<>>]
        ELSE keep(check_move(b, Head(moves), wrap),
                  filter_check_move(b, Tail(moves), wrap))

generate_legal_moves_for_piece(b, player_color, starting_square, wrap) ==
    LET moves_to(targets) ==
            [k \in 1..Len(targets) |->
                Move_NormalMove(starting_square, targets[k], piece_at(b, targets[k]))]
        legal(possible) ==
            filter_check_move(b, moves_to(IF possible.some THEN squares(possible.val)
                                          ELSE <<>>), wrap)
    IN  legal(generate_possible_moves_for_piece(b, player_color, starting_square))

RECURSIVE extend_moves(_, _, _, _)
extend_moves(b, player_color, from_squares, wrap) ==
    LET extend(first, rest) ==
            IF first.panic \/ rest.panic THEN [panic |-> TRUE, val |-> <<>>]
            ELSE [panic |-> FALSE, val |-> first.val \o rest.val]
    IN  IF from_squares = <<>> THEN [panic |-> FALSE, val |-> <<>>]
        ELSE extend(generate_legal_moves_for_piece(b, player_color, Head(from_squares),
                                                   wrap),
                    extend_moves(b, player_color, Tail(from_squares), wrap))

generate_moves_for_side(b, player_color, wrap) ==
    extend_moves(b, player_color, squares(query_color(b, player_color)), wrap)

\* BoardResult
InProgress == [kind |-> "InProgress"]
Draw(reason) == [kind |-> "Draw", reason |-> reason]
Win(color) == [kind |-> "Win", winner |-> color]
FiftyMoveRule == "FiftyMoveRule"
Stalemate == "Stalemate"

\* A variant of game_result that looks at the moves before the clock.
game_result_clock_last(b, wrap) ==
    LET result(check, moves) ==
            IF check.panic \/ moves.panic THEN [panic |-> TRUE, val |-> InProgress]
            ELSE [panic |-> FALSE,
                  val |-> IF check.val /\ moves.val = <<>>
                          THEN Win(not_color(b.active_color))
                          ELSE IF ~check.val /\ moves.val = <<>> THEN Draw(Stalemate)
                          ELSE IF b.halfmove_clock >= FiftyMoveLimit
                               THEN Draw(FiftyMoveRule)
                          ELSE InProgress]
    IN  result(is_king_in_check(b, b.active_color),
               generate_moves_for_side(b, b.active_color, wrap))

game_result(b, wrap) ==
    LET result(check, moves) ==
            IF check.panic \/ moves.panic THEN [panic |-> TRUE, val |-> InProgress]
            ELSE [panic |-> FALSE,
                  val |-> IF check.val /\ moves.val = <<>>
                          THEN Win(not_color(b.active_color))
                          ELSE IF ~check.val /\ moves.val = <<>> THEN Draw(Stalemate)
                          ELSE InProgress]
    IN  IF b.halfmove_clock >= FiftyMoveLimit
        THEN [panic |-> FALSE, val |-> Draw(FiftyMoveRule)]
        ELSE result(is_king_in_check(b, b.active_color),
                    generate_moves_for_side(b, b.active_color, wrap))

(***************************************************************************)
(* Evaluation: the order of Evaluation values, the static score, the search *)
(***************************************************************************)
\* Weights are kept in tenths and scores in hundredths, so that the default weights
\* (1.0, 9.0, 5.0, 3.0, 3.0, 1.0, 0.4, 0.4) and every score built from them are integers.
EvaluationWeights_default ==
    [overall_material_weight |-> 10, queen_material_weight |-> 90,
     rook_material_weight |-> 50, bishop_material_weight |-> 30,
     knight_material_weight |-> 30, pawn_material_weight |-> 10,
     center_control_weight |-> 4, mobility_weight |-> 4]

Evaluation_WhiteWin == [kind |-> "WhiteWin"]
Evaluation_WhiteCheckmateIn(x) == [kind |-> "WhiteCheckmateIn", x |-> x]
Evaluation_Draw == [kind |-> "Draw"]
Evaluation_BlackCheckmateIn(x) == [kind |-> "BlackCheckmateIn", x |-> x]
Evaluation_BlackWin == [kind |-> "BlackWin"]
Evaluation_Score(x) == [kind |-> "Score", x |-> x]

Less == "Less"
Equal == "Equal"
Greater == "Greater"
Int_cmp(x, y) == IF x < y THEN Less ELSE IF x > y THEN Greater ELSE Equal

\* A variant of the comparison without the two arms that compare Draw with a Score.
Evaluation_cmp_without_draw_arms(self, other) ==
    IF self.kind = "WhiteWin" /\ other.kind = "WhiteWin" THEN Equal
    ELSE IF self.kind = "WhiteCheckmateIn" /\ other.kind = "WhiteCheckmateIn"
         THEN Int_cmp(self.x, other.x)
    ELSE IF self.kind = "Draw" /\ other.kind = "Draw" THEN Equal
    ELSE IF self.kind = "BlackCheckmateIn" /\ other.kind = "BlackCheckmateIn"
         THEN Int_cmp(other.x, self.x)
    ELSE IF self.kind = "BlackWin" /\ other.kind = "BlackWin" THEN Equal
    ELSE IF self.kind = "Score" /\ other.kind = "Score" THEN Int_cmp(self.x, other.x)
    ELSE IF self.kind = "WhiteWin" THEN Greater
    ELSE IF other.kind = "WhiteWin" THEN Less
    ELSE IF self.kind = "WhiteCheckmateIn" THEN Greater
    ELSE IF other.kind = "WhiteCheckmateIn" THEN Less
    ELSE IF self.kind = "Draw" THEN Greater
    ELSE IF other.kind = "Draw" THEN Less
    ELSE IF self.kind = "Score" THEN Greater
    ELSE IF other.kind = "Score" THEN Less
    ELSE IF self.kind = "BlackCheckmateIn" /\ other.kind = "BlackWin" THEN Greater
    ELSE Less

\* impl Ord for Evaluation: the arms of the match, first match wins.
Evaluation_cmp(self, other) ==
    IF self.kind = "WhiteWin" /\ other.kind = "WhiteWin" THEN Equal
    ELSE IF self.kind = "WhiteCheckmateIn" /\ other.kind = "WhiteCheckmateIn"
         THEN Int_cmp(self.x, other.x)
    ELSE IF self.kind = "Draw" /\ other.kind = "Draw" THEN Equal
    ELSE IF self.kind = "BlackCheckmateIn" /\ other.kind = "BlackCheckmateIn"
         THEN Int_cmp(other.x, self.x)
    ELSE IF self.kind = "BlackWin" /\ other.kind = "BlackWin" THEN Equal
    ELSE IF self.kind = "Score" /\ other.kind = "Score" THEN Int_cmp(self.x, other.x)
    ELSE IF self.kind = "WhiteWin" THEN Greater
    ELSE IF other.kind = "WhiteWin" THEN Less
    ELSE IF self.kind = "WhiteCheckmateIn" THEN Greater
    ELSE IF other.kind = "WhiteCheckmateIn" THEN Less
    ELSE IF self.kind = "Score" /\ other.kind = "Draw" THEN Int_cmp(self.x, 0)
    ELSE IF self.kind = "Draw" /\ other.kind = "Score" THEN Int_cmp(0, other.x)
    ELSE IF self.kind = "Draw" THEN Greater
    ELSE IF other.kind = "Draw" THEN Less
    ELSE IF self.kind = "Score" THEN Greater
    ELSE IF other.kind = "Score" THEN Less
    ELSE IF self.kind = "BlackCheckmateIn" /\ other.kind = "BlackWin" THEN Greater
    ELSE Less

\* Ord::max returns the second argument when the two compare equal, Ord::min the first.
Evaluation_max(self, other) == IF Evaluation_cmp(self, other) = Greater THEN self ELSE other
Evaluation_min(self, other) == IF Evaluation_cmp(self, other) = Greater THEN other ELSE self

\* The difference in the number of pieces of a type, White minus Black.
piece_count_difference(b, piece_type) ==
    Len(squares(query_color_piece_type(b, White, piece_type)))
    - Len(squares(query_color_piece_type(b, Black, piece_type)))

evaluate_material_score(b, evaluation_weights) ==
    ( piece_count_difference(b, Queen) * evaluation_weights.queen_material_weight
    + piece_count_difference(b, Rook) * evaluation_weights.rook_material_weight
    + piece_count_difference(b, Bishop) * evaluation_weights.bishop_material_weight
    + piece_count_difference(b, Knight) * evaluation_weights.knight_material_weight
    + piece_count_difference(b, Pawn) * evaluation_weights.pawn_material_weight )
    * evaluation_weights.overall_material_weight

\* The squares of pieces of attacking_color that attack target_square whatever stands
\* on it: a pawn attacks both forward diagonals, the other pieces as they move.
all_squares_that_can_capture_square_theoretical(b, attacking_color, target_square) ==
    SelectSeq(squares(query_color(b, attacking_color)),
        LAMBDA start_square :
            coords_to_index_unchecked(target_square) \in
                IF b.piece_mailbox[start_square].piece_type = Pawn
                THEN IF attacking_color = White
                     THEN Shl(Bitboard_from(start_square) \cap file_mask_iter(1, 8), 7)
                          \cup Shl(Bitboard_from(start_square) \cap file_mask_iter(0, 7), 9)
                     ELSE Shr(Bitboard_from(start_square) \cap file_mask_iter(1, 8), 9)
                          \cup Shr(Bitboard_from(start_square) \cap file_mask_iter(0, 7), 7)
                ELSE Attacks_of_type(b, b.piece_mailbox[start_square].piece_type,
                                     attacking_color, start_square))

center_count(b, square) ==
    Len(all_squares_that_can_capture_square_theoretical(b, White, square))
    - Len(all_squares_that_can_capture_square_theoretical(b, Black, square))

evaluate_center_control(b, evaluation_weights) ==
    ( center_count(b, Square_new(3, 3)) + center_count(b, Square_new(3, 4))
    + center_count(b, Square_new(4, 4)) + center_count(b, Square_new(4, 3)) )
    * evaluation_weights.center_control_weight * 10

\* The difference in the number of generated moves, White minus Black; no caller.
evaluate_mobility(b, evaluation_weights, wrap) ==
    ( Len(generate_moves_for_side(b, White, wrap).val)
    - Len(generate_moves_for_side(b, Black, wrap).val) )
    * evaluation_weights.mobility_weight * 10

\* mobility_score is computed by evaluate_material_score, as in the source.
evaluate_approximate(b, evaluation_weights) ==
    evaluate_material_score(b, evaluation_weights)
    + evaluate_center_control(b, evaluation_weights)
    + evaluate_material_score(b, evaluation_weights)

\* A variant of the match after the loop that hands best_value up as it is.
back_a_step_unchanged(best_value) == best_value

\* The match on best_value after the loop: one step further from the end.
back_a_step(best_value) ==
    CASE best_value.kind = "WhiteWin" -> Evaluation_WhiteCheckmateIn(1)
      [] best_value.kind = "WhiteCheckmateIn" -> Evaluation_WhiteCheckmateIn(best_value.x + 1)
      [] best_value.kind = "BlackWin" -> Evaluation_BlackCheckmateIn(1)
      [] best_value.kind = "BlackCheckmateIn" -> Evaluation_BlackCheckmateIn(best_value.x + 1)
      [] best_value.kind = "Draw" -> Evaluation_Score(0)
      [] best_value.kind = "Score" -> Evaluation_Score(best_value.x)

EvaluationPanic(alpha, beta) ==
    [panic |-> TRUE, val |-> Evaluation_Draw, alpha |-> alpha, beta |-> beta]

\* evaluate_recursive takes alpha and beta by &mut: it returns its value together with
\* what it leaves in the two cells, which the caller's loop goes on with.
RECURSIVE evaluate_recursive(_, _, _, _, _, _)
RECURSIVE evaluate_moves(_, _, _, _, _, _, _, _)

\* The for loop over possible_moves, from the first of moves on.
evaluate_moves(b, evaluation_weights, moves, best_value, alpha, beta, depth, wrap) ==
    LET next(child, new_best) ==
            IF b.active_color = White
            THEN IF Evaluation_cmp(new_best, child.beta) /= Less
                 THEN [panic |-> FALSE, val |-> new_best,
                       alpha |-> child.alpha, beta |-> child.beta]
                 ELSE evaluate_moves(b, evaluation_weights, Tail(moves), new_best,
                          Evaluation_max(child.alpha, new_best), child.beta, depth, wrap)
            ELSE IF Evaluation_cmp(new_best, child.alpha) /= Greater
                 THEN [panic |-> FALSE, val |-> new_best,
                       alpha |-> child.alpha, beta |-> child.beta]
                 ELSE evaluate_moves(b, evaluation_weights, Tail(moves), new_best,
                          child.alpha, Evaluation_min(child.beta, new_best), depth, wrap)
        evaluated(child) ==
            IF child.panic THEN EvaluationPanic(child.alpha, child.beta)
            ELSE next(child, IF b.active_color = White
                             THEN Evaluation_max(best_value, child.val)
                             ELSE Evaluation_min(best_value, child.val))
        made_move(made) ==
            IF made.panic THEN EvaluationPanic(alpha, beta)
            ELSE evaluated(evaluate_recursive(made.board, evaluation_weights, alpha, beta,
                                              depth - 1, wrap))
    IN  IF moves = <<>>
        THEN [panic |-> FALSE, val |-> best_value, alpha |-> alpha, beta |-> beta]
        ELSE made_move(make_move(b, Head(moves), wrap))

evaluate_recursive(b, evaluation_weights, alpha, beta, depth, wrap) ==
    LET returns(value) == [panic |-> FALSE, val |-> value, alpha |-> alpha, beta |-> beta]
        searched(best) ==
            IF best.panic THEN best ELSE [best EXCEPT !.val = back_a_step(@)]
        search(possible_moves) ==
            IF possible_moves.panic THEN EvaluationPanic(alpha, beta)
            ELSE searched(evaluate_moves(b, evaluation_weights, possible_moves.val,
                              IF b.active_color = White THEN Evaluation_BlackWin
                              ELSE Evaluation_WhiteWin,
                              alpha, beta, depth, wrap))
        on_result(result) ==
            IF result.panic THEN EvaluationPanic(alpha, beta)
            ELSE IF result.val = Win(White) THEN returns(Evaluation_WhiteWin)
            ELSE IF result.val = Win(Black) THEN returns(Evaluation_BlackWin)
            ELSE IF result.val.kind = "Draw" THEN returns(Evaluation_Draw)
            ELSE IF depth = 0
                 THEN returns(Evaluation_Score(evaluate_approximate(b, evaluation_weights)))
            ELSE search(generate_moves_for_side(b, b.active_color, wrap))
    IN  on_result(game_result(b, wrap))

\* Start at negative and positive "infinity".
evaluate(b, evaluation_weights, depth, wrap) ==
    evaluate_recursive(b, evaluation_weights, Evaluation_BlackWin, Evaluation_WhiteWin,
                       depth, wrap)

(***************************************************************************)
(* Depth-limited minimax without pruning, to compare evaluate with          *)
(***************************************************************************)
RECURSIVE minimax(_, _, _, _)
RECURSIVE minimax_moves(_, _, _, _, _, _)

minimax_moves(b, evaluation_weights, moves, best_value, depth, wrap) ==
    LET evaluated(child) ==
            IF child.panic THEN child
            ELSE minimax_moves(b, evaluation_weights, Tail(moves),
                     IF b.active_color = White THEN Evaluation_max(best_value, child.val)
                     ELSE Evaluation_min(best_value, child.val),
                     depth, wrap)
    IN  IF moves = <<>> THEN [panic |-> FALSE, val |-> best_value]
        ELSE evaluated(minimax(make_move_in_place(b, Head(moves), wrap).board,
                               evaluation_weights, depth - 1, wrap))

minimax(b, evaluation_weights, depth, wrap) ==
    LET searched(best) ==
            IF best.panic THEN best ELSE [best EXCEPT !.val = back_a_step(@)]
        on_result(result) ==
            IF result.panic THEN [panic |-> TRUE, val |-> Evaluation_Draw]
            ELSE IF result.val = Win(White) THEN [panic |-> FALSE, val |-> Evaluation_WhiteWin]
            ELSE IF result.val = Win(Black) THEN [panic |-> FALSE, val |-> Evaluation_BlackWin]
            ELSE IF result.val.kind = "Draw" THEN [panic |-> FALSE, val |-> Evaluation_Draw]
            ELSE IF depth = 0
                 THEN [panic |-> FALSE,
                       val |-> Evaluation_Score(evaluate_approximate(b, evaluation_weights))]
            ELSE searched(minimax_moves(b, evaluation_weights,
                              generate_moves_for_side(b, b.active_color, wrap).val,
                              IF b.active_color = White THEN Evaluation_BlackWin
                              ELSE Evaluation_WhiteWin,
                              depth, wrap))
    IN  on_result(game_result(b, wrap))

(***************************************************************************)
(* Board configurations the constructors are given                         *)
(***************************************************************************)
\* A piece map from a list of <<rank, file, color, piece_type>>.
PieceMap(list) ==
    [s \in {Square_new(list[k][1], list[k][2]) : k \in 1..Len(list)} |->
        LET k == CHOOSE k \in 1..Len(list) : Square_new(list[k][1], list[k][2]) = s
        IN  Piece_new(list[k][3], list[k][4])]

BackRank == <<Rook, Knight, Bishop, Queen, King, Bishop, Knight, Rook>>

\* rnbqkbnr/pppppppp/8/8/8/8/PPPPPPPP/RNBQKBNR w KQkq - 0 1
DefaultConfiguration ==
    BoardConfiguration_new(
        [s \in {sq \in Squares : sq[1] \in {0, 1, 6, 7}} |->
            CASE s[1] = 0 -> Piece_new(White, BackRank[s[2] + 1])
              [] s[1] = 1 -> Piece_new(White, Pawn)
              [] s[1] = 6 -> Piece_new(Black, Pawn)
              [] s[1] = 7 -> Piece_new(Black, BackRank[s[2] + 1])],
        White, CastlingAvailability_new(TRUE, TRUE, TRUE, TRUE), NoSquare, 0, 1)

\* BoardConfigurationBuilder::default().build(): no pieces.
BlankConfiguration ==
    BoardConfiguration_new(EmptyMailbox, White,
        CastlingAvailability_new(FALSE, FALSE, FALSE, FALSE), NoSquare, 0, 1)

NoCastling == CastlingAvailability_new(FALSE, FALSE, FALSE, FALSE)

\* 3k4/8/3K4/8/Q7/8/8/8 w - - 0 1
MateInOneConfiguration ==
    BoardConfiguration_new(
        PieceMap(<< <<7, 3, Black, King>>, <<5, 3, White, King>>,
                    <<3, 0, White, Queen>> >>),
        White, NoCastling, NoSquare, 0, 1)

\* 3k4/3Q4/3K4/8/8/8/8/8 b - - 0 1
CheckmatedConfiguration ==
    BoardConfiguration_new(
        PieceMap(<< <<7, 3, Black, King>>, <<6, 3, White, Queen>>,
                    <<5, 3, White, King>> >>),
        Black, NoCastling, NoSquare, 0, 1)

\* 3k4/3Q4/3K4/8/8/8/8/8 b - - 50 60
CheckmatedAfterFiftyConfiguration ==
    [CheckmatedConfiguration EXCEPT !.halfmove_clock = 50, !.fullmove_number = 60]

\* k7/2Q5/1K6/8/8/8/8/8 b - - 0 1
StalemateConfiguration ==
    BoardConfiguration_new(
        PieceMap(<< <<7, 0, Black, King>>, <<6, 2, White, Queen>>,
                    <<5, 1, White, King>> >>),
        Black, NoCastling, NoSquare, 0, 1)

\* 4k3/8/8/8/8/8/P6P/R3K2R w K - 0 1
CastleConfiguration ==
    BoardConfiguration_new(
        PieceMap(<< <<7, 4, Black, King>>, <<1, 0, White, Pawn>>, <<1, 7, White, Pawn>>,
                    <<0, 0, White, Rook>>, <<0, 4, White, King>>,
                    <<0, 7, White, Rook>> >>),
        White, CastlingAvailability_new(TRUE, FALSE, FALSE, FALSE), NoSquare, 0, 1)

\* r3k3/p7/8/8/8/8/3R4/4K3 b q - 0 1
CastleThroughCheckConfiguration ==
    BoardConfiguration_new(
        PieceMap(<< <<7, 4, Black, King>>, <<7, 0, Black, Rook>>, <<6, 0, Black, Pawn>>,
                    <<1, 3, White, Rook>>, <<0, 4, White, King>> >>),
        Black, CastlingAvailability_new(FALSE, FALSE, FALSE, TRUE), NoSquare, 0, 1)

\* 3r3k/8/8/8/8/8/8/3K3R w - - 0 1
KingAwayInCheckConfiguration ==
    BoardConfiguration_new(
        PieceMap(<< <<7, 3, Black, Rook>>, <<7, 7, Black, King>>,
                    <<0, 3, White, King>>, <<0, 7, White, Rook>> >>),
        White, NoCastling, NoSquare, 0, 1)

\* 4k3/8/8/1p6/P1P5/1p6/8/N3N1K1 w - - 49 40
TwoCandidatesConfiguration ==
    BoardConfiguration_new(
        PieceMap(<< <<7, 4, Black, King>>, <<4, 1, Black, Pawn>>,
                    <<3, 0, White, Pawn>>, <<3, 2, White, Pawn>>,
                    <<2, 1, Black, Pawn>>, <<0, 0, White, Knight>>,
                    <<0, 4, White, Knight>>, <<0, 6, White, King>> >>),
        White, NoCastling, NoSquare, 49, 40)

\* 7k/8/8/8/8/8/8/KN6 b - - 255 255
ClocksAtMaxConfiguration ==
    BoardConfiguration_new(
        PieceMap(<< <<7, 7, Black, King>>, <<0, 0, White, King>>,
                    <<0, 1, White, Knight>> >>),
        Black, NoCastling, NoSquare, U8Max, U8Max)

\* 7k/8/8/3n4/8/8/8/K2R4 w - - 0 1
HangingKnightConfiguration ==
    BoardConfiguration_new(
        PieceMap(<< <<7, 7, Black, King>>, <<4, 3, Black, Knight>>,
                    <<0, 0, White, King>>, <<0, 3, White, Rook>> >>),
        White, NoCastling, NoSquare, 0, 1)

Configurations ==
    {DefaultConfiguration, BlankConfiguration, CheckmatedConfiguration,
     CheckmatedAfterFiftyConfiguration, StalemateConfiguration, CastleConfiguration,
     CastleThroughCheckConfiguration, KingAwayInCheckConfiguration,
     TwoCandidatesConfiguration, ClocksAtMaxConfiguration}

EvaluatedConfigurations ==
    {MateInOneConfiguration, HangingKnightConfiguration, CheckmatedConfiguration,
     StalemateConfiguration}

\* Every board the model starts from is built by the constructor from a configuration.
InitialBoards == {new_board_with_configuration(c) : c \in Configurations}
EvaluatedBoards == {new_board_with_configuration(c) : c \in EvaluatedConfigurations}

new_default_starting_board == new_board_with_configuration(DefaultConfiguration)
new_blank_board == new_board_with_configuration(BlankConfiguration)

(***************************************************************************)
(* Inputs of attempt_move                                                  *)
(***************************************************************************)
Discriminants ==
    {NoLine}
    \cup {Line_Rank(r) : r \in 0..MaxDiscLine}
    \cup {Line_File(f) : f \in 0..MaxDiscLine}
    \cup {Line_RankAndFile(0, MaxDiscLine)}

NormalMoveCommands ==
    {MoveCommand_NormalMove(piece_type, discriminant, capture, target_square) :
        piece_type \in PieceType, discriminant \in Discriminants,
        capture \in BOOLEAN, target_square \in Squares}

CastleCommands == {KingsideCastle, QueensideCastle}

MoveCommands == NormalMoveCommands \cup CastleCommands

(***************************************************************************)
(* The state machine: a caller that holds a Board and calls its operations *)
(***************************************************************************)
VARIABLES
    board,      \* the Board the caller holds
    pc,         \* "idle": between calls; "returned": a call has just returned
    call,       \* the call that has just returned: its input, receiver and result
    moves_made  \* number of boards adopted from attempt_move so far

vars == <<board, pc, call, moves_made>>

NoCall == [op |-> "none"]

Init ==
    /\ board \in InitialBoards
    /\ pc = "idle"
    /\ call = NoCall
    /\ moves_made = 0

\* A build with overflow checks panics where one without them wraps; the two differ
\* only when a clock is at its maximum.
Builds(b) ==
    IF b.halfmove_clock = U8Max \/ b.fullmove_number = U8Max THEN BOOLEAN ELSE {FALSE}

Returned(command, wrap, result) ==
    /\ call' = [op |-> "attempt_move", command |-> command, wrap |-> wrap,
                before |-> board, res |-> result]
    /\ board' = result.self
    /\ pc' = "returned"
    /\ UNCHANGED moves_made

\* board.attempt_move(&MoveCommand::NormalMove(..))
AttemptNormalMove ==
    /\ pc = "idle"
    /\ moves_made < MaxMoves
    /\ \E command \in NormalMoveCommands, wrap \in Builds(board) :
          Returned(command, wrap, attempt_move(board, command, wrap))

\* board.attempt_move(&MoveCommand::KingsideCastle) and QueensideCastle
AttemptCastle ==
    /\ pc = "idle"
    /\ moves_made < MaxMoves
    /\ \E command \in CastleCommands, wrap \in Builds(board) :
          Returned(command, wrap, attempt_move(board, command, wrap))

\* board.game_result()
GameResult ==
    /\ pc = "idle"
    /\ \E wrap \in Builds(board) :
          call' = [op |-> "game_result", wrap |-> wrap, before |-> board,
                   res |-> game_result(board, wrap)]
    /\ pc' = "returned"
    /\ UNCHANGED <<board, moves_made>>

\* board.generate_moves_for_side(board.active_color())
GenerateMoves ==
    /\ pc = "idle"
    /\ \E wrap \in Builds(board) :
          call' = [op |-> "generate_moves_for_side", wrap |-> wrap, before |-> board,
                   res |-> generate_moves_for_side(board, board.active_color, wrap)]
    /\ pc' = "returned"
    /\ UNCHANGED <<board, moves_made>>

\* The caller takes the Ok(board) of attempt_move as its new board.
Adopt ==
    /\ pc = "returned"
    /\ call.op = "attempt_move"
    /\ call.res.kind = "Ok"
    /\ board' = call.res.board
    /\ moves_made' = moves_made + 1
    /\ pc' = "idle"
    /\ call' = NoCall

\* The caller goes on with the board it has: after an Err, or after a query.
Continue ==
    /\ pc = "returned"
    /\ \/ call.op = "attempt_move" /\ call.res.kind = "Err"
       \/ call.op /= "attempt_move" /\ ~call.res.panic
    /\ pc' = "idle"
    /\ call' = NoCall
    /\ UNCHANGED <<board, moves_made>>

Next ==
    \/ AttemptNormalMove
    \/ AttemptCastle
    \/ GameResult
    \/ GenerateMoves
    \/ Adopt
    \/ Continue

Spec == Init /\ [][Next]_vars

(***************************************************************************)
(* A second caller: one that evaluates positions and plays generated moves *)
(***************************************************************************)
InitEval ==
    /\ board \in EvaluatedBoards
    /\ pc = "idle"
    /\ call = NoCall
    /\ moves_made = 0

\* board.evaluate(&EvaluationWeights::default(), depth); the search looks at most
\* MaxDepth plies beyond the board the caller started from.
Evaluate ==
    /\ pc = "idle"
    /\ \E depth \in 0..(MaxDepth - moves_made), wrap \in Builds(board) :
          call' = [op |-> "evaluate", depth |-> depth, wrap |-> wrap, before |-> board,
                   res |-> evaluate(board, EvaluationWeights_default, depth, wrap)]
    /\ pc' = "returned"
    /\ UNCHANGED <<board, moves_made>>

\* The caller has read the evaluation.
Evaluated ==
    /\ pc = "returned"
    /\ call.op = "evaluate"
    /\ pc' = "idle"
    /\ call' = NoCall
    /\ UNCHANGED <<board, moves_made>>

\* board.make_move(&move) for one of board.generate_moves_for_side(active colour).
PlayGeneratedMove ==
    /\ pc = "idle"
    /\ moves_made < MaxPlies
    /\ \E wrap \in Builds(board) :
          /\ ~generate_moves_for_side(board, board.active_color, wrap).panic
          /\ \E k \in 1..Len(generate_moves_for_side(board, board.active_color, wrap).val) :
                /\ ~make_move(board,
                        generate_moves_for_side(board, board.active_color, wrap).val[k],
                        wrap).panic
                /\ board' = make_move(board,
                        generate_moves_for_side(board, board.active_color, wrap).val[k],
                        wrap).board
    /\ moves_made' = moves_made + 1
    /\ UNCHANGED <<pc, call>>

NextEval ==
    \/ Evaluate
    \/ Evaluated
    \/ PlayGeneratedMove

SpecEval == InitEval /\ [][NextEval]_vars

(***************************************************************************)
(* Properties of Board, checked under Spec                                 *)
(***************************************************************************)
AttemptReturned == pc = "returned" /\ call.op = "attempt_move"
CastleAttempted == AttemptReturned /\ call.command \in CastleCommands
ReturnedErr(error) == call.res.kind = "Err" /\ call.res.error = error
BitsOf(square_set) == {coords_to_index_unchecked(s) : s \in square_set}

\* C1: on every board a constructor built or a successful attempt_move returned,
\* the colour bitboards, the type bitboards and the mailbox cover the same squares,
\* no square is in both colour bitboards and none is in two type bitboards.
C1_BitboardsAgreeWithMailbox ==
    /\ board.white_pieces \cup board.black_pieces
         = UNION {pieces_of_type(board, t) : t \in PieceType}
    /\ UNION {pieces_of_type(board, t) : t \in PieceType}
         = BitsOf(DOMAIN board.piece_mailbox)
    /\ board.white_pieces \cap board.black_pieces = {}
    /\ \A t1, t2 \in PieceType :
          t1 /= t2 => pieces_of_type(board, t1) \cap pieces_of_type(board, t2) = {}

\* The move leaves the king of the player who makes it in check.
LeavesKingInCheck(b, move, wrap) ==
    /\ ~make_move_in_place(b, move, wrap).panic
    /\ is_king_in_check(make_move_in_place(b, move, wrap).board, b.active_color)
         = [panic |-> FALSE, val |-> TRUE]

\* C2: an Ok(b2) of attempt_move has the mover's king out of check on b2, and a
\* command whose move would leave that king in check gets Err(IllegalMove).
C2_NeverLeavesOwnKingInCheck ==
    AttemptReturned =>
        /\ call.res.kind = "Ok" =>
              is_king_in_check(call.res.board, call.before.active_color)
                = [panic |-> FALSE, val |-> FALSE]
        /\ ( /\ get_move(call.before, call.command).ok
             /\ LeavesKingInCheck(call.before, get_move(call.before, call.command).move,
                                  call.wrap) )
              => ReturnedErr(IllegalMove)

\* A move that does not end the check on the mover's own king was refused.
C2_Witness ==
    /\ AttemptReturned
    /\ call.command.kind = "NormalMove"
    /\ get_move(call.before, call.command).ok
    /\ is_king_in_check(call.before, call.before.active_color).val
    /\ LeavesKingInCheck(call.before, get_move(call.before, call.command).move, call.wrap)
    /\ ReturnedErr(IllegalMove)

\* C3: attempt_move leaves the board it is called on as it was, whatever it returns,
\* and only an Ok carries a board.
C3_ReceiverUnchanged ==
    AttemptReturned =>
        /\ call.res.self = call.before
        /\ board = call.before
        /\ ("board" \in DOMAIN call.res) <=> (call.res.kind = "Ok")

\* An accepted move returned a board that differs from the receiver.
C3_Witness ==
    /\ AttemptReturned
    /\ call.res.kind = "Ok"
    /\ call.res.board /= call.before
    /\ call.res.self = call.before

EvaluateReturned == pc = "returned" /\ call.op = "evaluate"

\* C4: for every position and depth, evaluate (alpha-beta) returns the Evaluation that
\* minimax without pruning returns with the same move generator, terminal test,
\* static score and mate-distance bookkeeping.
C4_PruningKeepsTheResult ==
    (EvaluateReturned /\ ~call.res.panic) =>
        call.res.val = minimax(call.before, EvaluationWeights_default, call.depth,
                               call.wrap).val

\* The pieces the command may mean: squares of a piece of the active colour and the
\* commanded type whose moves (for a capture command: attacks) contain the target.
Candidates(b, command) ==
    {s \in Squares :
        /\ coords_to_index_unchecked(s)
             \in pieces_of_type(b, command.piece_type) \cap pieces_of_color(b, b.active_color)
        /\ coords_to_index_unchecked(command.target_square)
             \in IF command.capture
                 THEN Attacks_of_type(b, command.piece_type, b.active_color, s)
                 ELSE Moves_of_type(b, command.piece_type, b.active_color, s)}

Remaining(b, command) ==
    IF command.discriminant = NoLine THEN Candidates(b, command)
    ELSE {s \in Candidates(b, command) : has_square(command.discriminant, s)}

\* C5: a NormalMove command with no candidate gets Err(NoPossibleMove); with two or
\* more candidates left after the discriminant, or two or more and no discriminant,
\* it gets Err(TooManMoves); a move is made only for a single candidate.
C5_AmbiguousCommandsAreRefused ==
    (AttemptReturned /\ call.command.kind = "NormalMove") =>
        LET candidates == Candidates(call.before, call.command)
            remaining == IF call.command.discriminant = NoLine THEN candidates
                         ELSE {s \in candidates : has_square(call.command.discriminant, s)}
        IN  /\ candidates = {} => ReturnedErr(NoPossibleMove)
            /\ Cardinality(remaining) >= 2 => ReturnedErr(TooManMoves)
            /\ call.res.kind = "Ok" =>
                  Cardinality(remaining) = 1 \/ Cardinality(candidates) = 1

\* Two knights can reach the target, the discriminant names the rank both stand on.
C5_Witness ==
    /\ AttemptReturned
    /\ call.command.kind = "NormalMove"
    /\ call.command.discriminant /= NoLine
    /\ Cardinality(Remaining(call.before, call.command)) = 2
    /\ ReturnedErr(TooManMoves)

GameResultReturned == pc = "returned" /\ call.op = "game_result"
Checkmated(b, wrap) ==
    /\ is_king_in_check(b, b.active_color) = [panic |-> FALSE, val |-> TRUE]
    /\ generate_moves_for_side(b, b.active_color, wrap) = [panic |-> FALSE, val |-> <<>>]

\* C6: game_result is Draw(FiftyMoveRule) whenever the halfmove clock is 50 or more,
\* before anything else; otherwise, with no legal move, Win(opponent) in check and
\* Draw(Stalemate) out of check; otherwise InProgress.
C6_GameResultOrder ==
    GameResultReturned =>
        IF call.before.halfmove_clock >= 50
        THEN call.res = [panic |-> FALSE, val |-> Draw(FiftyMoveRule)]
        ELSE ~call.res.panic =>
               call.res.val =
                 IF generate_moves_for_side(call.before, call.before.active_color,
                                            call.wrap).val /= <<>>
                 THEN InProgress
                 ELSE IF is_king_in_check(call.before, call.before.active_color).val
                      THEN Win(not_color(call.before.active_color))
                      ELSE Draw(Stalemate)

\* The side to move is checkmated and the clock is at 50 or more: a draw.
C6_Witness ==
    /\ GameResultReturned
    /\ call.before.halfmove_clock >= 50
    /\ Checkmated(call.before, call.wrap)
    /\ call.res.val = Draw(FiftyMoveRule)

CastlingFlag(b, command) ==
    CASE b.active_color = White /\ command = KingsideCastle ->
             b.castling_availability.white_castle_kingside
      [] b.active_color = White /\ command = QueensideCastle ->
             b.castling_availability.white_castle_queenside
      [] b.active_color = Black /\ command = KingsideCastle ->
             b.castling_availability.black_castle_kingside
      [] b.active_color = Black /\ command = QueensideCastle ->
             b.castling_availability.black_castle_queenside

\* C7: a castling command gets Err(IllegalMove) whenever the castling_availability
\* flag of the active colour for that side is false.
C7_CastleNeedsItsFlag ==
    (CastleAttempted /\ ~CastlingFlag(call.before, call.command))
        => ReturnedErr(IllegalMove)

KingPath(b, command) ==
    {Square_new(home_rank(b.active_color), file) :
        file \in IF command = KingsideCastle THEN {4, 5, 6} ELSE {4, 3, 2}}

\* C8: a castling command gets Err(IllegalMove) whenever the active colour's king
\* is in check or a square the king starts on, crosses or lands on is attacked.
C8_NoCastleOutOfOrThroughCheck ==
    ( /\ CastleAttempted
      /\ \/ is_king_in_check(call.before, call.before.active_color)
              = [panic |-> FALSE, val |-> TRUE]
         \/ \E s \in KingPath(call.before, call.command) :
               all_squares_that_can_capture_square(call.before,
                   not_color(call.before.active_color), s) /= <<>> )
        => ReturnedErr(IllegalMove)

GenerateReturned == pc = "returned" /\ call.op = "generate_moves_for_side"
Generated == {call.res.val[k] : k \in 1..Len(call.res.val)}

\* C9: generate_moves_for_side(active colour) returns exactly the legal moves: each
\* returned move passes check_move, each move attempt_move accepts (normal move,
\* capture or castle) is returned, and the default starting board has 20 of them.
C9_GeneratedMovesAreTheLegalMoves ==
    (GenerateReturned /\ ~call.res.panic) =>
        /\ \A move \in Generated :
              check_move(call.before, move, call.wrap).val
        /\ \A command \in MoveCommands :
              attempt_move(call.before, command, call.wrap).kind = "Ok"
                 => get_move(call.before, command).move \in Generated
        /\ call.before = new_default_starting_board => Len(call.res.val) = 20

MovedPiece(b, move) == b.piece_mailbox[move.starting_square]

\* C10: after a successful attempt_move the halfmove clock is 0 when a pawn moved or
\* the move is a capture, and the previous clock plus 1 otherwise (every castle too).
C10_HalfmoveClock ==
    (AttemptReturned /\ call.res.kind = "Ok") =>
        call.res.board.halfmove_clock =
            IF call.command.kind = "NormalMove"
               /\ \/ get_move(call.before, call.command).move.capture
                  \/ MovedPiece(call.before,
                                get_move(call.before, call.command).move).piece_type = Pawn
            THEN 0
            ELSE call.before.halfmove_clock + 1

\* C11: after a successful attempt_move the fullmove number is the previous one plus 1
\* when Black moved and unchanged when White moved, and the active colour is flipped.
C11_FullmoveNumber ==
    (AttemptReturned /\ call.res.kind = "Ok") =>
        /\ call.res.board.fullmove_number =
               IF call.before.active_color = Black
               THEN call.before.fullmove_number + 1
               ELSE call.before.fullmove_number
        /\ call.res.board.active_color = not_color(call.before.active_color)

(***************************************************************************)
(* A caller that starts from positions with castling rights                *)
(***************************************************************************)
\* r3k2r/8/8/8/8/8/8/R3K2R w KQkq - 0 1
AllRightsConfiguration ==
    BoardConfiguration_new(
        PieceMap(<< <<7, 0, Black, Rook>>, <<7, 4, Black, King>>, <<7, 7, Black, Rook>>,
                    <<0, 0, White, Rook>>, <<0, 4, White, King>>, <<0, 7, White, Rook>> >>),
        White, CastlingAvailability_new(TRUE, TRUE, TRUE, TRUE), NoSquare, 0, 1)

\* r3k2r/8/8/8/8/8/8/R3K2R b KQkq - 0 1
AllRightsBlackConfiguration ==
    BoardConfiguration_new(AllRightsConfiguration.pieces, Black,
        CastlingAvailability_new(TRUE, TRUE, TRUE, TRUE), NoSquare, 0, 1)

InitCastling ==
    /\ board \in {new_board_with_configuration(c) :
                     c \in {AllRightsConfiguration, AllRightsBlackConfiguration,
                            CastleConfiguration, CastleThroughCheckConfiguration}}
    /\ pc = "idle"
    /\ call = NoCall
    /\ moves_made = 0

SpecCastling == InitCastling /\ [][Next]_vars

Right(ca, color, direction) ==
    CASE color = White /\ direction = Kingside -> ca.white_castle_kingside
      [] color = White /\ direction = Queenside -> ca.white_castle_queenside
      [] color = Black /\ direction = Kingside -> ca.black_castle_kingside
      [] color = Black /\ direction = Queenside -> ca.black_castle_queenside

HomeCorner(color, direction) ==
    Square_new(home_rank(color), IF direction = Kingside THEN 7 ELSE 0)

\* The move of b's active colour ends the right of color on the side direction.
Revokes(b, move, color, direction) ==
    IF color = b.active_color
    THEN \/ move.kind = "Castle"
         \/ /\ move.kind = "NormalMove"
            /\ \/ MovedPiece(b, move).piece_type = King
               \/ /\ MovedPiece(b, move).piece_type = Rook
                  /\ move.starting_square = HomeCorner(color, direction)
    ELSE /\ move.kind = "NormalMove"
         /\ move.capture
         /\ move.target_square = HomeCorner(color, direction)
         /\ move.target_square \in DOMAIN b.piece_mailbox
         /\ b.piece_mailbox[move.target_square] = Piece_new(color, Rook)

\* C12: after a successful attempt_move a castling right is cleared exactly when the
\* mover's king moved or castled, the mover's rook left its home corner on that side,
\* or the opponent's rook was captured on its home corner; every other right is kept.
C12_CastlingRightsRevoked ==
    (AttemptReturned /\ call.res.kind = "Ok") =>
        \A color \in PlayerColor, direction \in {Kingside, Queenside} :
            Right(call.res.board.castling_availability, color, direction)
              = ( /\ Right(call.before.castling_availability, color, direction)
                  /\ ~Revokes(call.before, get_move(call.before, call.command).move,
                              color, direction) )

\* A rook is captured on its home corner by a rook that leaves its own: the two rights
\* of that side go and the two of the other side stay.
C12_Witness ==
    /\ AttemptReturned
    /\ call.res.kind = "Ok"
    /\ call.before.castling_availability = CastlingAvailability_new(TRUE, TRUE, TRUE, TRUE)
    /\ call.command.kind = "NormalMove"
    /\ call.command.capture
    /\ call.command.piece_type = Rook
    /\ call.command.target_square = HomeCorner(not_color(call.before.active_color), Queenside)
    /\ call.res.board.castling_availability
         \in {CastlingAvailability_new(TRUE, FALSE, TRUE, FALSE)}

\* The squares a move touches: start and target of a normal move; the start and end
\* squares of king and rook of a castle.
Touched(b, move) ==
    IF move.kind = "Castle"
    THEN {Square_new(home_rank(b.active_color), file) :
              file \in IF move.direction = Kingside THEN {4, 5, 6, 7} ELSE {0, 2, 3, 4}}
    ELSE {move.starting_square, move.target_square}

SameOnSquare(b1, b2, square) ==
    /\ (square \in DOMAIN b1.piece_mailbox) = (square \in DOMAIN b2.piece_mailbox)
    /\ square \in DOMAIN b1.piece_mailbox
          => b1.piece_mailbox[square] = b2.piece_mailbox[square]
    /\ \A color \in PlayerColor :
          is_bit_set(pieces_of_color(b1, color), coords_to_index_unchecked(square))
            = is_bit_set(pieces_of_color(b2, color), coords_to_index_unchecked(square))
    /\ \A piece_type \in PieceType :
          is_bit_set(pieces_of_type(b1, piece_type), coords_to_index_unchecked(square))
            = is_bit_set(pieces_of_type(b2, piece_type), coords_to_index_unchecked(square))

\* C13: between a board and the board a legal move makes of it, only the squares the
\* move touches change: on every other square the mailbox entry and the bit of each
\* of the eight bitboards are the same.
C13_OnlyTouchedSquaresChange ==
    (AttemptReturned /\ call.res.kind = "Ok") =>
        \A square \in Squares \ Touched(call.before,
                                        get_move(call.before, call.command).move) :
            SameOnSquare(call.before, call.res.board, square)

\* A capture and a castle, each with pieces on squares the move does not touch.
C13_Witness ==
    /\ AttemptReturned
    /\ call.res.kind = "Ok"
    /\ \/ call.command \in CastleCommands
       \/ call.command.kind = "NormalMove" /\ call.command.capture
    /\ DOMAIN call.before.piece_mailbox
          \ Touched(call.before, get_move(call.before, call.command).move) /= {}
    /\ \E square \in Touched(call.before, get_move(call.before, call.command).move) :
          ~SameOnSquare(call.before, call.res.board, square)

(***************************************************************************)
(* A caller that compares Evaluations                                      *)
(***************************************************************************)
Evaluations ==
    {Evaluation_WhiteWin, Evaluation_Draw, Evaluation_BlackWin}
    \cup {Evaluation_WhiteCheckmateIn(n) : n \in 0..MaxMate}
    \cup {Evaluation_BlackCheckmateIn(n) : n \in 0..MaxMate}
    \cup {Evaluation_Score(x) : x \in (-MaxScore)..MaxScore}

InitOrder ==
    /\ board = new_blank_board
    /\ pc = "idle"
    /\ call = NoCall
    /\ moves_made = 0

\* self.cmp(&other), for three values of which it compares the first two.
Compare ==
    /\ pc = "idle"
    /\ \E self \in Evaluations, other \in Evaluations, third \in Evaluations :
          call' = [op |-> "cmp", self |-> self, other |-> other, third |-> third,
                   res |-> [panic |-> FALSE, val |-> Evaluation_cmp(self, other)]]
    /\ pc' = "returned"
    /\ UNCHANGED <<board, moves_made>>

NextOrder ==
    \/ Compare
    \/ Continue

SpecOrder == InitOrder /\ [][NextOrder]_vars

CompareReturned == pc = "returned" /\ call.op = "cmp"

\* The place of a variant in the order; Draw stands where the scores stand.
Tier(evaluation) ==
    CASE evaluation.kind = "BlackWin" -> 0
      [] evaluation.kind = "BlackCheckmateIn" -> 1
      [] evaluation.kind \in {"Score", "Draw"} -> 2
      [] evaluation.kind = "WhiteCheckmateIn" -> 3
      [] evaluation.kind = "WhiteWin" -> 4

ScoreOf(evaluation) == IF evaluation.kind = "Draw" THEN 0 ELSE evaluation.x

\* The order the comparison is to implement.
Below(a, b) ==
    \/ Tier(a) < Tier(b)
    \/ /\ Tier(a) = Tier(b)
       /\ CASE a.kind = "BlackCheckmateIn" -> a.x > b.x
            [] a.kind = "WhiteCheckmateIn" -> a.x < b.x
            [] a.kind \in {"Score", "Draw"} -> ScoreOf(a) < ScoreOf(b)
            [] OTHER -> FALSE

is_new_score_at_least_old_score(player_color, old_score, new_score) ==
    IF player_color = White
    THEN Evaluation_cmp(old_score, new_score) /= Greater
    ELSE Evaluation_cmp(old_score, new_score) /= Less

is_new_score_better_than_old_score(player_color, old_score, new_score) ==
    IF player_color = White
    THEN Evaluation_cmp(old_score, new_score) = Less
    ELSE Evaluation_cmp(old_score, new_score) = Greater

\* The closure handed to reduce_with: a and b are (move, evaluation) pairs, a from
\* the left part of the list and b from the right part.
reduce_op(agent_color, a, b) ==
    IF is_new_score_better_than_old_score(agent_color, a.evaluation, b.evaluation)
    THEN b ELSE a

\* What evaluate_next_move may return for a root move.
RootEvaluations ==
    {Evaluation_WhiteWin, Evaluation_Draw, Evaluation_BlackWin, Evaluation_Score(0)}
    \cup {Evaluation_WhiteCheckmateIn(n) : n \in 1..MaxRootMoves}
    \cup {Evaluation_BlackCheckmateIn(n) : n \in 1..MaxRootMoves}

InitAgent ==
    /\ board = new_blank_board
    /\ pc = "idle"
    /\ call = NoCall
    /\ moves_made = 0

\* agent_move_request up to the end of the map stage: the k-th item is the k-th move
\* of generate_moves_for_side with the evaluation of the board it leads to.
AgentMoveRequest ==
    /\ pc = "idle"
    /\ \E agent_color \in PlayerColor, n \in 1..MaxRootMoves :
          \E scores \in [1..n -> RootEvaluations] :
             call' = [op |-> "agent_move_request", agent_color |-> agent_color,
                      scores |-> scores,
                      items |-> [k \in 1..n |-> [move |-> k, evaluation |-> scores[k]]]]
    /\ pc' = "reducing"
    /\ UNCHANGED <<board, moves_made>>

\* One step of the parallel reduction: two neighbouring partial results are combined,
\* in whatever order and grouping the thread pool gets to them.
Combine ==
    /\ pc = "reducing"
    /\ Len(call.items) > 1
    /\ \E k \in 1..(Len(call.items) - 1) :
          call' = [call EXCEPT !.items =
                      SubSeq(@, 1, k - 1)
                      \o <<reduce_op(call.agent_color, @[k], @[k + 1])>>
                      \o SubSeq(@, k + 2, Len(@))]
    /\ UNCHANGED <<board, pc, moves_made>>

\* reduce_with is done: best_move is the one item left.
AgentMoveReturn ==
    /\ pc = "reducing"
    /\ Len(call.items) = 1
    /\ call' = [op |-> "agent_move_request", agent_color |-> call.agent_color,
                scores |-> call.scores,
                res |-> [panic |-> FALSE, val |-> call.items[1]]]
    /\ pc' = "returned"
    /\ UNCHANGED <<board, moves_made>>

NextAgent ==
    \/ AgentMoveRequest
    \/ Combine
    \/ AgentMoveReturn
    \/ Continue

SpecAgent == InitAgent /\ [][NextAgent]_vars

AgentReturned == pc = "returned" /\ call.op = "agent_move_request"

\* A forced mate in favour of color, some plies ahead.
OwnMate(color, evaluation) ==
    evaluation.kind = (IF color = White THEN "WhiteCheckmateIn" ELSE "BlackCheckmateIn")

\* C15: fewer plies to mate is better for the mating side: of two mates in its favour
\* the side to move values the shorter one as better (Ord::max for White, Ord::min for
\* Black, and the root's test) and the root never picks the longer one.
C15_ShorterMateIsChosen ==
    AgentReturned =>
        \A i, j \in DOMAIN call.scores :
            ( /\ OwnMate(call.agent_color, call.scores[i])
              /\ OwnMate(call.agent_color, call.scores[j])
              /\ call.scores[i].x < call.scores[j].x )
            => /\ call.res.val.evaluation /= call.scores[j]
               /\ is_new_score_better_than_old_score(call.agent_color,
                                                     call.scores[j], call.scores[i])
               /\ IF call.agent_color = White
                  THEN Evaluation_max(call.scores[i], call.scores[j]) = call.scores[i]
                  ELSE Evaluation_min(call.scores[i], call.scores[j]) = call.scores[i]

\* No item of the list is better for the side to move than the k-th one.
BestForSide(agent_color, scores, k) ==
    \A j \in DOMAIN scores :
        ~is_new_score_better_than_old_score(agent_color, scores[k], scores[j])

\* C17: whatever the order and grouping in which the parallel reduction combines the
\* root branches, the agent returns the move whose evaluation is best for the side to
\* move (maximum for White, minimum for Black) and, among equally good ones, the first.
C17_RootChoiceIgnoresGrouping ==
    AgentReturned =>
        /\ call.res.val.move \in DOMAIN call.scores
        /\ call.res.val.evaluation = call.scores[call.res.val.move]
        /\ BestForSide(call.agent_color, call.scores, call.res.val.move)
        /\ \A j \in 1..(call.res.val.move - 1) :
              ~BestForSide(call.agent_color, call.scores, j)

\* Three root moves, the first and the last equally good and better than the second:
\* the first is returned.
C17_Witness ==
    /\ AgentReturned
    /\ Len(call.scores) = 3
    /\ call.scores[1] = Evaluation_Draw
    /\ call.scores[3] = Evaluation_Score(0)
    /\ is_new_score_better_than_old_score(call.agent_color, call.scores[2], call.scores[1])
    /\ call.res.val.move = 1

\* The one-ply mapping of a child's value.
OnePly(value) ==
    CASE value = Evaluation_WhiteWin -> Evaluation_WhiteCheckmateIn(1)
      [] value = Evaluation_BlackWin -> Evaluation_BlackCheckmateIn(1)
      [] value = Evaluation_Draw -> Evaluation_Score(0)
      [] value.kind = "WhiteCheckmateIn" -> Evaluation_WhiteCheckmateIn(value.x + 1)
      [] value.kind = "BlackCheckmateIn" -> Evaluation_BlackCheckmateIn(value.x + 1)
      [] value.kind = "Score" -> value

\* The values of the boards one generated move away, each evaluated at depth 0.
ChildValues(b, wrap) ==
    {evaluate(make_move(b, generate_moves_for_side(b, b.active_color, wrap).val[k],
                        wrap).board,
              EvaluationWeights_default, 0, wrap).val :
        k \in 1..Len(generate_moves_for_side(b, b.active_color, wrap).val)}

BestOf(color, values) ==
    CHOOSE v \in values :
        \A w \in values : IF color = White THEN Evaluation_cmp(v, w) /= Less
                          ELSE Evaluation_cmp(v, w) /= Greater

is_in_progress(result) == result.kind = "InProgress"

\* GameState::update: the board's attempt_move on the agent's answer.
GameState_update(b, move, wrap) == attempt_move(b, move, wrap)

\* A variant of the second test of next_round that always lets Black's agent move.
next_round_black_unchecked(in_progress) == "agent_black"

\* next_round after White's turn: Black's agent moves only while the game is in progress.
next_round_black(in_progress) ==
    IF in_progress THEN "agent_black" ELSE "round_done"

\* main: a Game on some board of a game, and run() is called. pc is the position in
\* the loop; call keeps the build, the agent asked last, how its last answer was
\* taken, and whether the answer before an accepted one was rejected.
InitGame ==
    /\ board \in {new_board_with_configuration(c) :
                     c \in {DefaultConfiguration, MateInOneConfiguration,
                            TwoCandidatesConfiguration, CheckmatedConfiguration,
                            StalemateConfiguration}}
    /\ pc = "run"
    /\ \E wrap \in Builds(board) :
          call = [op |-> "run", wrap |-> wrap, agent |-> "none", last |-> "none",
                  rejected |-> FALSE]
    /\ moves_made = 0

\* run: the test of the while loop.
RunTest ==
    /\ pc = "run"
    /\ LET test(result) ==
               IF result.panic THEN "panicked"
               ELSE IF is_in_progress(result.val) THEN "next_round"
               ELSE "over"
       IN  pc' = test(game_result(board, call.wrap))
    /\ UNCHANGED <<board, call, moves_made>>

\* The model follows the game for MaxMoves moves.
GameRun ==
    /\ moves_made < MaxMoves
    /\ RunTest

\* next_round: the test before White's turn.
NextRoundWhite ==
    /\ pc = "next_round"
    /\ LET test(result) ==
               IF result.panic THEN "panicked"
               ELSE IF is_in_progress(result.val) THEN "agent_white"
               ELSE "second_test"
       IN  pc' = test(game_result(board, call.wrap))
    /\ UNCHANGED <<board, call, moves_made>>

\* What an agent may answer: any castle and any move without a discriminant.
AgentAnswers ==
    CastleCommands
    \cup {MoveCommand_NormalMove(piece_type, NoLine, capture, target_square) :
             piece_type \in PieceType, capture \in BOOLEAN, target_square \in Squares}

\* A variant of the match in agent_turn that returns from the turn on an Err as well.
agent_turn_match_returning_on_err(position, kind) ==
    CASE kind = "Panic" -> "panicked"
      [] kind \in {"Err", "Ok"} ->
             IF position = "agent_white" THEN "second_test" ELSE "round_done"

\* The match in agent_turn: an Err goes round the loop, an Ok returns from the turn.
agent_turn_match(position, kind) ==
    CASE kind = "Panic" -> "panicked"
      [] kind = "Err" -> position
      [] kind = "Ok" -> IF position = "agent_white" THEN "second_test" ELSE "round_done"

\* agent_turn: one pass of the loop; the agent answers with one of the given moves, an
\* Err asks again. An accepted move is counted in moves_made when counted is TRUE.
Turn(answers, counted) ==
    /\ pc \in {"agent_white", "agent_black"}
    /\ \E move_request \in answers :
          LET turn(new_game_state) ==
                  /\ call' = [call EXCEPT
                                 !.agent = pc,
                                 !.last = new_game_state.kind,
                                 !.rejected = IF new_game_state.kind = "Err" THEN TRUE
                                              ELSE call.agent = pc /\ call.last = "Err"]
                  /\ board' = IF new_game_state.kind = "Ok" THEN new_game_state.board
                              ELSE new_game_state.self
                  /\ moves_made' = IF new_game_state.kind = "Ok" /\ counted
                                   THEN moves_made + 1
                                   ELSE moves_made
                  /\ pc' = agent_turn_match(pc, new_game_state.kind)
          IN  turn(GameState_update(board, move_request, call.wrap))

AgentTurn ==
    /\ moves_made < MaxMoves
    /\ Turn(AgentAnswers, TRUE)

\* next_round: the test before Black's turn.
NextRoundBlack ==
    /\ pc = "second_test"
    /\ LET test(result) ==
               IF result.panic THEN "panicked"
               ELSE next_round_black(is_in_progress(result.val))
       IN  pc' = test(game_result(board, call.wrap))
    /\ UNCHANGED <<board, call, moves_made>>

\* next_round returns to the loop of run.
NextRoundReturn ==
    /\ pc = "round_done"
    /\ pc' = "run"
    /\ UNCHANGED <<board, call, moves_made>>

NextGame ==
    \/ GameRun
    \/ NextRoundWhite
    \/ AgentTurn
    \/ NextRoundBlack
    \/ NextRoundReturn

SpecGame == InitGame /\ [][NextGame]_vars

\* C19: whenever the game loop is about to ask an agent for a move, game_result() of
\* the current board is InProgress and the side to move has at least one generated
\* move; this includes Black's turn after White's move.
C19_AgentAskedOnlyInProgress ==
    LET in_progress(result, moves) ==
            /\ ~result.panic
            /\ result.val = InProgress
            /\ moves.val /= <<>>
    IN  pc \in {"agent_white", "agent_black"} =>
            in_progress(game_result(board, call.wrap),
                        generate_moves_for_side(board, board.active_color, call.wrap))

\* White's move ended the game: the round is over and Black's agent was never asked.
C19_Witness ==
    /\ pc = "round_done"
    /\ moves_made = 1
    /\ call.agent = "agent_white"
    /\ game_result(board, call.wrap).val /= InProgress


(***************************************************************************)
(* The conversions between squares and bit indices                         *)
(***************************************************************************)
InitCoords ==
    /\ board = new_blank_board
    /\ pc = "idle"
    /\ call = NoCall
    /\ moves_made = 0

\* Bitboard::coords_to_index(Square::new(rank, file))
CoordsToIndex ==
    /\ \E rank \in 0..MaxCoord, file \in 0..MaxCoord :
          call' = [op |-> "coords_to_index", square |-> Square_new(rank, file),
                   res |-> coords_to_index(Square_new(rank, file))]
    /\ pc' = "returned"
    /\ UNCHANGED <<board, moves_made>>

\* Bitboard::index_to_coords(index)
IndexToCoords ==
    /\ \E index \in 0..MaxIndex :
          call' = [op |-> "index_to_coords", index |-> index,
                   res |-> index_to_coords(index)]
    /\ pc' = "returned"
    /\ UNCHANGED <<board, moves_made>>

NextCoords ==
    \/ CoordsToIndex
    \/ IndexToCoords

SpecCoords == InitCoords /\ [][NextCoords]_vars

C21_StaticScoreHasMobilityTerm ==
    LET static(result) ==
            (~result.panic /\ result.val = InProgress) =>
                call.res.val =
                    Evaluation_Score(
                        evaluate_material_score(call.before, EvaluationWeights_default)
                        + evaluate_center_control(call.before, EvaluationWeights_default)
                        + evaluate_mobility(call.before, EvaluationWeights_default,
                                            call.wrap))
    IN  (EvaluateReturned /\ call.depth = 0 /\ ~call.res.panic) =>
            static(game_result(call.before, call.wrap))


(***************************************************************************)
(* The queries on pieces and squares, called with either colour            *)
(***************************************************************************)
InitQueries ==
    /\ board \in InitialBoards
    /\ pc = "idle"
    /\ call = NoCall
    /\ moves_made = 0

\* board.squares_of_type_that_can_move_to_square(piece_color, piece_type, square)
MoveToSquareQuery ==
    /\ pc = "idle"
    /\ \E piece_color \in {White, Black}, piece_type \in PieceType, square \in Squares :
          call' = [op |-> "squares_of_type_that_can_move_to_square",
                   piece_color |-> piece_color, piece_type |-> piece_type,
                   square |-> square, before |-> board,
                   res |-> squares_of_type_that_can_move_to_square(board, piece_color,
                               piece_type, square)]
    /\ pc' = "returned"
    /\ UNCHANGED <<board, moves_made>>

\* board.squares_of_type_that_can_capture_square(piece_color, piece_type, target_square)
CaptureSquareQuery ==
    /\ pc = "idle"
    /\ \E piece_color \in {White, Black}, piece_type \in PieceType, square \in Squares :
          call' = [op |-> "squares_of_type_that_can_capture_square",
                   piece_color |-> piece_color, piece_type |-> piece_type,
                   square |-> square, before |-> board,
                   res |-> squares_of_type_that_can_capture_square(board, piece_color,
                               piece_type, square)]
    /\ pc' = "returned"
    /\ UNCHANGED <<board, moves_made>>

\* board.knight_moves(active_color, from)
KnightMoves ==
    /\ pc = "idle"
    /\ \E active_color \in {White, Black}, from \in Squares :
          call' = [op |-> "knight_moves", active_color |-> active_color, from |-> from,
                   before |-> board, res |-> knight_moves(board, active_color, from)]
    /\ pc' = "returned"
    /\ UNCHANGED <<board, moves_made>>

\* board.king_moves(active_color, from)
KingMoves ==
    /\ pc = "idle"
    /\ \E active_color \in {White, Black}, from \in Squares :
          call' = [op |-> "king_moves", active_color |-> active_color, from |-> from,
                   before |-> board, res |-> king_moves(board, active_color, from)]
    /\ pc' = "returned"
    /\ UNCHANGED <<board, moves_made>>

\* The caller has read the answer.
QueryAnswered ==
    /\ pc = "returned"
    /\ pc' = "idle"
    /\ call' = NoCall
    /\ UNCHANGED <<board, moves_made>>

NextQueries ==
    \/ MoveToSquareQuery
    \/ CaptureSquareQuery
    \/ KnightMoves
    \/ KingMoves
    \/ QueryAnswered

SpecQueries == InitQueries /\ [][NextQueries]_vars

\* The squares of the pieces of a colour and type, in ascending index order.
PiecesOf(b, piece_color, piece_type) ==
    squares(pieces_of_type(b, piece_type) \cap pieces_of_color(b, piece_color))

\* C22: for either colour, whoever is to move, the move query returns the squares of
\* the pieces of that colour and type whose move bitmask for that colour contains the
\* target, and the capture query those whose attack bitmask for that colour does.
C22_QueriesUseTheGivenColor ==
    /\ (pc = "returned" /\ call.op = "squares_of_type_that_can_move_to_square") =>
           call.res =
               SelectSeq(PiecesOf(call.before, call.piece_color, call.piece_type),
                   LAMBDA starting_square :
                       coords_to_index_unchecked(call.square) \in
                           Moves_of_type(call.before, call.piece_type, call.piece_color,
                                         starting_square))
    /\ (pc = "returned" /\ call.op = "squares_of_type_that_can_capture_square") =>
           call.res =
               SelectSeq(PiecesOf(call.before, call.piece_color, call.piece_type),
                   LAMBDA start_square :
                       coords_to_index_unchecked(call.square) \in
                           Attacks_of_type(call.before, call.piece_type, call.piece_color,
                                           start_square))


\* The bits of the squares of the board at the given <<rank, file>> offsets from a
\* square, without those of the pieces of the moving colour.
OffsetSquares(b, active_color, from, offsets) ==
    {8 * (from[1] + d[1]) + (from[2] + d[2]) :
        d \in {o \in offsets : /\ from[1] + o[1] \in 0..7
                               /\ from[2] + o[2] \in 0..7}}
    \ {coords_to_index_unchecked(square) :
        square \in {s \in DOMAIN b.piece_mailbox : b.piece_mailbox[s].color = active_color}}

TurnStep ==
    pc \in {"agent_white", "agent_black"} =>
        \/ /\ call'.last = "Err"
           /\ board' = board
           /\ pc' = pc
           /\ moves_made' = moves_made
        \/ /\ call'.last = "Ok"
           /\ moves_made' = moves_made + 1
           /\ pc' = IF pc = "agent_white" THEN "second_test" ELSE "round_done"
           /\ \E move_request \in AgentAnswers :
                 LET accepted(new_game_state) ==
                         /\ new_game_state.kind = "Ok"
                         /\ board' = new_game_state.board
                 IN  accepted(attempt_move(board, move_request, call.wrap))
        \/ pc' = "panicked"

\* C24: a step of agent_turn either leaves the board where it is and asks the same
\* agent again (the answer was rejected), or replaces the board, once, by the board
\* attempt_move returned for the answer and ends the turn; the other agent is asked
\* only after that.
C24_RejectedMoveAsksSameAgentAgain == [][TurnStep]_vars

\* White's turn has ended with an accepted move after a rejected one.
C24_Witness ==
    /\ pc = "second_test"
    /\ call.agent = "agent_white"
    /\ call.last = "Ok"
    /\ call.rejected
    /\ moves_made = 1


\* C25: a NormalMove command that attempt_move accepts agrees with the board about
\* capturing: without the capture flag the target square is empty, with it the target
\* square holds a piece of the opponent; so the number of pieces drops by one with the
\* flag and stays the same without it.
C25_CaptureFlagAgreesWithBoard ==
    (AttemptReturned /\ call.res.kind = "Ok" /\ call.command.kind = "NormalMove") =>
        LET target_square == call.command.target_square
            mailbox == call.before.piece_mailbox
        IN  /\ IF call.command.capture
               THEN /\ target_square \in DOMAIN mailbox
                    /\ mailbox[target_square].color /= call.before.active_color
               ELSE target_square \notin DOMAIN mailbox
            /\ Cardinality(DOMAIN call.res.board.piece_mailbox) =
                   Cardinality(DOMAIN mailbox) - (IF call.command.capture THEN 1 ELSE 0)


\* The active colour's king and the rook of the castling side stand on their home
\* squares and the squares between them are empty.
CastlePiecesInPlace(b, command) ==
    LET rank == IF b.active_color = White THEN 0 ELSE 7
        rook_file == IF command = KingsideCastle THEN 7 ELSE 0
        between == IF command = KingsideCastle THEN {5, 6} ELSE {1, 2, 3}
        holds(square, piece_type) ==
            /\ square \in DOMAIN b.piece_mailbox
            /\ b.piece_mailbox[square] = [color |-> b.active_color,
                                          piece_type |-> piece_type]
    IN  /\ holds(Square_new(rank, 4), King)
        /\ holds(Square_new(rank, rook_file), Rook)
        /\ \A file \in between : Square_new(rank, file) \notin DOMAIN b.piece_mailbox

\* C26: a castling command on a board where the king or the rook is not on its home
\* square, or a square between them is occupied, returns an error: no panic, no board.
C26_CastleNeedsPiecesInPlace ==
    (CastleAttempted /\ ~CastlePiecesInPlace(call.before, call.command)) =>
        call.res.kind = "Err"


\* C27: when a NormalMove command with a discriminant is accepted, the starting square
\* of the move it was resolved to lies on the discriminant's line; when no candidate
\* lies on the line the command gets Err(NoPossibleMove).
C27_DiscriminantIsHonoured ==
    (AttemptReturned /\ call.command.kind = "NormalMove"
     /\ call.command.discriminant /= NoLine) =>
        /\ call.res.kind = "Ok" =>
               has_square(call.command.discriminant,
                          get_move(call.before, call.command).move.starting_square)
        /\ Remaining(call.before, call.command) = {} => ReturnedErr(NoPossibleMove)


(***************************************************************************)
(* A caller that starts from the default board or from a board played from it *)
(***************************************************************************)
\* 1. Na3 Nf6 2. Nb1 Ng4 3. Na3 Nxf2: a black knight next to the white king.
KnightRaid ==
    << MoveCommand_NormalMove(Knight, NoLine, FALSE, Square_new(2, 0)),
       MoveCommand_NormalMove(Knight, NoLine, FALSE, Square_new(5, 5)),
       MoveCommand_NormalMove(Knight, NoLine, FALSE, Square_new(0, 1)),
       MoveCommand_NormalMove(Knight, NoLine, FALSE, Square_new(3, 6)),
       MoveCommand_NormalMove(Knight, NoLine, FALSE, Square_new(2, 0)),
       MoveCommand_NormalMove(Knight, NoLine, TRUE, Square_new(1, 5)) >>

\* The board after a list of commands, each of which attempt_move accepts.
RECURSIVE play(_, _)
play(b, commands) ==
    IF commands = <<>> THEN b
    ELSE play(attempt_move(b, Head(commands), FALSE).board, Tail(commands))

InitPlayed ==
    /\ board \in {new_default_starting_board, play(new_default_starting_board, KnightRaid)}
    /\ pc = "idle"
    /\ call = NoCall
    /\ moves_made = 0

SpecPlayed == InitPlayed /\ [][Next]_vars

KingSquares(b, color) == squares(query_color_piece_type(b, color, King))

\* C28: on the board the caller holds and on every board attempt_move returns, each
\* colour has exactly one king square, and no call panics.
C28_OneKingPerColor ==
    /\ \A color \in {White, Black} : Len(KingSquares(board, color)) = 1
    /\ (AttemptReturned /\ call.res.kind = "Ok") =>
           \A color \in {White, Black} : Len(KingSquares(call.res.board, color)) = 1
    /\ (AttemptReturned /\ ~CastleAttempted) => call.res.kind /= "Panic"


(***************************************************************************)
(* The game loop run without a bound on the number of moves                *)
(***************************************************************************)
\* Agents that shuttle the queen's knights, b1-c3-b1 and b8-c6-b8, and write every
\* move as a capture.
ShuttleAnswers ==
    {MoveCommand_NormalMove(Knight, NoLine, TRUE, Square_new(2, 2)),
     MoveCommand_NormalMove(Knight, NoLine, TRUE, Square_new(0, 1)),
     MoveCommand_NormalMove(Knight, NoLine, TRUE, Square_new(5, 2)),
     MoveCommand_NormalMove(Knight, NoLine, TRUE, Square_new(7, 1))}

\* Either build; the game starts on the default board or on a board already mated.
InitRun ==
    /\ board \in {new_board_with_configuration(DefaultConfiguration),
                  new_board_with_configuration(CheckmatedConfiguration)}
    /\ pc = "run"
    /\ \E wrap \in BOOLEAN :
          call = [op |-> "run", wrap |-> wrap, agent |-> "none", last |-> "none",
                  rejected |-> FALSE]
    /\ moves_made = 0

ShuttleTurn == Turn(ShuttleAnswers, FALSE)

NextRun ==
    \/ RunTest
    \/ NextRoundWhite
    \/ ShuttleTurn
    \/ NextRoundBlack
    \/ NextRoundReturn

SpecRun == InitRun /\ [][NextRun]_vars

\* The loop of run is at its test after a round of accepted moves.
RoundPlayed == pc = "run" /\ call.agent = "agent_black" /\ call.last = "Ok"

\* C29: a game run from the default board ends, so the loop of Game::run is never
\* back, after a round of accepted moves, at its test with the board the game
\* started from: from there the same answers would be accepted again, for ever.
C29_GameEnds ==
    RoundPlayed => board /= new_board_with_configuration(DefaultConfiguration)


\* C30: on every board on which the game loop asks an agent for a move, both clocks
\* are below 255, so that the increments of the move cannot overflow.
C30_ClocksStayInRange ==
    pc \in {"agent_white", "agent_black"} =>
        /\ board.halfmove_clock + 1 <= U8Max
        /\ board.fullmove_number + 1 <= U8Max

=============================================================================
